---- MODULE Spec2Model ----
(***************************************************************************)
(* gobase: the generic model accessor (accessor.go) over a GORM-backed     *)
(* connection, its scoped transactions and its JSON preload engine.        *)
(*                                                                         *)
(* A table is the set of rows of one record type; a row keeps the          *)
(* identity, one caller-set attribute (Name) and the tombstone flag        *)
(* (DeletedAt set).  The audit timestamps are left out: no property        *)
(* checked here reads them.  The GORM calls the accessor delegates to are  *)
(* modelled by what GORM documents for them: Create inserts and fills the  *)
(* auto-increment key, First/Find read live rows only, Save is "update     *)
(* all fields, insert when nothing was updated", Delete sets deleted_at.   *)
(***************************************************************************)
EXTENDS Integers, Sequences, FiniteSets, TLC

VARIABLES db, seq, tx, last, globalRegistry, pkgPath, cli

vars == <<db, seq, tx, last, globalRegistry, pkgPath, cli>>

\* the global model registry, the import path the package was built under,
\* and the command-line host process
globals == <<globalRegistry, pkgPath, cli>>

\* ---------------------------------------------------------------- bounds
\* largest numeric identity the tables may hold
MaxID == 2
\* largest number of operations issued inside one transaction function
MaxTxOps == 2
\* largest number of consecutive Preload calls on the same files
MaxRuns == 2
\* largest number of models in an explicit Migrate list
MaxModels == 2
\* largest number of entries of the global model registry
MaxRegistry == 3

\* ------------------------------------------------------------ record types
mongoDBType == "mongodb"

\* the connection the accessor was built on (the test suite's)
connectionType == "sqlite"

ModelTypes == {"TestModel", "CustomIDModel"}

\* TestModel keeps BaseModel's uint ID, CustomIDModel overrides it by a string
IDKind(t) == IF t = "CustomIDModel" THEN "string" ELSE "uint"

ZeroID(t) == IF IDKind(t) = "uint" THEN 0 ELSE ""

IDValues(t) == IF IDKind(t) = "uint" THEN 0..MaxID ELSE {"", "custom-001"}

Names == {"A", "B"}

\* the instances of type t a caller may pass: the identity unset or set, and
\* DeletedAt unset or set (as on an instance that went through Delete)
Instances(t) == [ID : IDValues(t), Name : Names, Deleted : BOOLEAN]

Max(a, b) == IF a >= b THEN a ELSE b

MaxOf(S) == IF S = {} THEN 0 ELSE CHOOSE x \in S : \A y \in S : y <= x

\* the id argument of Get: an interface{} holding a value, or nil
IDArg(v) == [isNil |-> FALSE, v |-> v]

NilArg == [isNil |-> TRUE]

\* the zero-valued instance Get is handed to populate
Fresh(t) == [ID |-> ZeroID(t), Name |-> "", Deleted |-> FALSE]

\* ------------------------------------------------------------- validation
\* a struct field as reflect.StructField shows it: its name, whether it is
\* embedded, and Type.Name() of its type ("" for a pointer type)
Field(name, anonymous, type) ==
  [name |-> name, anonymous |-> anonymous, type |-> type]

embedded == Field("BaseModel", TRUE, "BaseModel")

embeddedPtr == Field("BaseModel", TRUE, "")

BaseAttributes == {"ID", "CreatedAt", "UpdatedAt", "DeletedAt"}

\* the fields a struct type may declare besides the embedded base: the four
\* attributes by their own names, a named (not embedded) BaseModel field, and
\* a field of its own
OwnFields ==
  {Field(a, FALSE, IF a = "ID" THEN "string" ELSE "Time") : a \in BaseAttributes}
    \cup {Field("Base", FALSE, "BaseModel"), Field("Name", FALSE, "string")}

\* the struct types of the package and of its tests and examples, by their
\* fields
StructOf(t) ==
  CASE t = "TestModel" -> {embedded, Field("Name", FALSE, "string")}
    [] t = "CustomIDModel" ->
         {embedded, Field("ID", FALSE, "string"), Field("Name", FALSE, "string")}
    [] t = "User" -> {embedded, Field("Username", FALSE, "string")}
    [] t = "main.User" -> {embedded, Field("Name", FALSE, "string")}
    [] t = "Product" ->
         {Field("ID", FALSE, "string"), Field("CreatedAt", FALSE, "Time"),
          Field("UpdatedAt", FALSE, "Time"), Field("Name", FALSE, "string")}
    [] OTHER -> {Field("Name", FALSE, "string")}

\* every struct type over those fields; a type has at most one field named
\* BaseModel
StructTypes ==
  {own \cup base : own \in SUBSET OwnFields,
                   base \in {{}, {embedded}, {embeddedPtr}}}

\* what a caller may pass as model interface{}: the nil interface, a struct,
\* a pointer to a struct (nil or not), a pointer to such a pointer, a value
\* that is no struct
ValueKinds == {"struct", "ptr", "nilptr", "ptrptr"}

Value(kind, fields) == [kind |-> kind, fields |-> fields]

NilValue == Value("nil", {})

IntValue == Value("int", {})

Values ==
  {NilValue, IntValue, Value("ptr", StructOf("Product"))}
    \cup {Value(k, f) : k \in ValueKinds, f \in StructTypes}

\* reflect.TypeOf(model), and Elem() of it when its Kind is Ptr
elemKind(v) ==
  CASE v.kind \in {"ptr", "nilptr"} -> "struct"
    [] v.kind = "ptrptr" -> "ptr"
    [] OTHER -> v.kind

hasBaseModelAny(v) == \E f \in v.fields : f.type = "BaseModel"

hasBaseModel(v) == \E f \in v.fields : f.anonymous /\ f.type = "BaseModel"

validateBaseModel(v) ==
  IF v.kind = "nil" THEN "model cannot be nil"
  ELSE IF elemKind(v) # "struct" THEN "model must be a struct"
  ELSE IF ~hasBaseModel(v) THEN "model must embed gobase.BaseModel"
  ELSE "nil"

\* the check on a pointer to a value of the named type, which is what the
\* accessor's callers pass
ValidateBaseModel(t) == validateBaseModel(Value("ptr", StructOf(t))) = "nil"

\* ------------------------------------------------------------- GORM calls
\* the tables Migrate has created: the domain of the store
HasTable(d, t) == t \in DOMAIN d

Result(d, s, m, e) == [db |-> d, seq |-> s, m |-> m, err |-> e]

NoTable(d, s, m) == Result(d, s, m, "no such table")

Live(d, t) == IF HasTable(d, t) THEN {r \in d[t] : ~r.Deleted} ELSE {}

NextID(d, s, t) == Max(s[t], MaxOf({r.ID : r \in d[t]})) + 1

GormCreateNoBackfill(d, s, t, m) ==
  IF ~HasTable(d, t) THEN NoTable(d, s, m) ELSE
  LET auto == IDKind(t) = "uint" /\ m.ID = 0
      id   == IF auto THEN NextID(d, s, t) ELSE m.ID
      s2   == IF IDKind(t) = "uint" THEN [s EXCEPT ![t] = Max(@, id)] ELSE s
  IN  IF \E r \in d[t] : r.ID = id
      THEN Result(d, s, m, "UNIQUE constraint failed")
      ELSE Result([d EXCEPT ![t] = @ \cup {[ID |-> id, Name |-> m.Name, Deleted |-> m.Deleted]}],
                  s2, m, "nil")

\* GormDB.Create(model): INSERT; an unset auto-increment key is assigned by
\* the table (larger than every key it ever held) and written back
GormCreate(d, s, t, m) ==
  IF ~HasTable(d, t) THEN NoTable(d, s, m) ELSE
  LET auto == IDKind(t) = "uint" /\ m.ID = 0
      id   == IF auto THEN NextID(d, s, t) ELSE m.ID
      s2   == IF IDKind(t) = "uint" THEN [s EXCEPT ![t] = Max(@, id)] ELSE s
  IN  IF \E r \in d[t] : r.ID = id
      THEN Result(d, s, m, "UNIQUE constraint failed")
      ELSE Result([d EXCEPT ![t] = @ \cup {[ID |-> id, Name |-> m.Name, Deleted |-> m.Deleted]}],
                  s2, [m EXCEPT !.ID = id], "nil")

GormFirstUnscoped(d, s, t, m, id) ==
  IF ~HasTable(d, t) THEN NoTable(d, s, m)
  ELSE IF \E r \in d[t] : r.ID = id
  THEN Result(d, s, CHOOSE r \in d[t] : r.ID = id, "nil")
  ELSE Result(d, s, m, "ErrRecordNotFound")

\* GormDB.Where("id = ?", id).First(model): rows WHERE deleted_at IS NULL
GormFirst(d, s, t, m, id) ==
  IF ~HasTable(d, t) THEN NoTable(d, s, m)
  ELSE IF \E r \in Live(d, t) : r.ID = id
  THEN Result(d, s, CHOOSE r \in Live(d, t) : r.ID = id, "nil")
  ELSE Result(d, s, m, "ErrRecordNotFound")

GormSaveAppend(d, s, t, m) ==
  IF ~HasTable(d, t) THEN NoTable(d, s, m)
  ELSE IF m.ID = ZeroID(t) THEN GormCreate(d, s, t, m)
  ELSE LET row == [ID |-> m.ID, Name |-> m.Name, Deleted |-> m.Deleted]
           s2  == IF IDKind(t) = "uint" THEN [s EXCEPT ![t] = Max(@, m.ID)] ELSE s
       IN  Result([d EXCEPT ![t] = @ \cup {row}], s2, m, "nil")

\* GormDB.Save(model): a zero primary key is a Create; otherwise UPDATE all
\* fields WHERE id = ? AND deleted_at IS NULL, and when that touched no row,
\* INSERT ... ON CONFLICT (id) DO UPDATE SET all fields
GormSave(d, s, t, m) ==
  IF ~HasTable(d, t) THEN NoTable(d, s, m)
  ELSE IF m.ID = ZeroID(t) THEN GormCreate(d, s, t, m)
  ELSE LET row == [ID |-> m.ID, Name |-> m.Name, Deleted |-> m.Deleted]
           s2  == IF IDKind(t) = "uint" THEN [s EXCEPT ![t] = Max(@, m.ID)] ELSE s
       IN  IF \E r \in Live(d, t) : r.ID = m.ID
           THEN Result([d EXCEPT ![t] = {IF r.ID = m.ID THEN row ELSE r : r \in @}], s, m, "nil")
           ELSE Result([d EXCEPT ![t] = {r \in @ : r.ID # m.ID} \cup {row}], s2, m, "nil")

GormDeleteHard(d, s, t, m) ==
  IF ~HasTable(d, t) THEN NoTable(d, s, m)
  ELSE IF m.ID = ZeroID(t) THEN Result(d, s, m, "ErrMissingWhereClause")
  ELSE Result([d EXCEPT ![t] = {r \in @ : r.ID # m.ID}], s, m, "nil")

\* GormDB.Delete(model): the model has a DeletedAt field, so
\* UPDATE SET deleted_at = now WHERE id = ? AND deleted_at IS NULL;
\* a model without primary key gives no WHERE clause and is refused
GormDelete(d, s, t, m) ==
  IF ~HasTable(d, t) THEN NoTable(d, s, m)
  ELSE IF m.ID = ZeroID(t) THEN Result(d, s, m, "ErrMissingWhereClause")
  ELSE Result([d EXCEPT ![t] = {IF r.ID = m.ID THEN [r EXCEPT !.Deleted = TRUE] ELSE r : r \in @}],
              s, [m EXCEPT !.Deleted = TRUE], "nil")

\* GormDB.Find(models)
GormFind(d, t) == Live(d, t)

\* connection.GormDB.Unscoped().Model(&T{}).Where("id = ?", id).Count(&count)
UnscopedCount(d, t, id) == Cardinality({r \in d[t] : r.ID = id})

TransactionAlwaysCommits(e, work, wseq, committed, cseq) ==
  [db |-> work, seq |-> wseq, err |-> e]

TransactionNeverCommits(e, work, wseq, committed, cseq) ==
  [db |-> committed, seq |-> cseq, err |-> e]

\* GormDB.Transaction(fc): commit when fc returns nil, else roll back and
\* return fc's error
TransactionResult(e, work, wseq, committed, cseq) ==
  IF e = "nil"
  THEN [db |-> work, seq |-> wseq, err |-> "nil"]
  ELSE [db |-> committed, seq |-> cseq, err |-> e]

\* --------------------------------------------------------------- accessor
AccCreate(d, s, t, m) ==
  IF ~ValidateBaseModel(t) THEN Result(d, s, m, "model validation failed")
  ELSE IF connectionType = mongoDBType THEN Result(d, s, m, "not implemented")
  ELSE GormCreate(d, s, t, m)

AccGet(d, s, t, m, id) ==
  IF ~ValidateBaseModel(t) THEN Result(d, s, m, "model validation failed")
  ELSE IF id.isNil THEN Result(d, s, m, "id cannot be nil")
  ELSE IF connectionType = mongoDBType THEN Result(d, s, m, "not implemented")
  ELSE GormFirst(d, s, t, m, id.v)

AccUpdate(d, s, t, m) ==
  IF ~ValidateBaseModel(t) THEN Result(d, s, m, "model validation failed")
  ELSE IF connectionType = mongoDBType THEN Result(d, s, m, "not implemented")
  ELSE GormSave(d, s, t, m)

AccDelete(d, s, t, m) ==
  IF ~ValidateBaseModel(t) THEN Result(d, s, m, "model validation failed")
  ELSE IF connectionType = mongoDBType THEN Result(d, s, m, "not implemented")
  ELSE GormDelete(d, s, t, m)

\* ---------------------------------------------------------------- preload
\* A path is the sequence of its characters.
\* filepath.Base: the last element of the path
Base(path) ==
  LET seps == {i \in 1..Len(path) : path[i] = "/"}
  IN  SubSeq(path, MaxOf(seps) + 1, Len(path))

\* filepath.Ext: the suffix of the last element from its final dot on
Ext(path) ==
  LET name == Base(path)
      dots == {i \in 1..Len(name) : name[i] = "."}
  IN  IF dots = {} THEN <<>> ELSE SubSeq(name, MaxOf(dots), Len(name))

\* strings.TrimSuffix
TrimSuffix(str, suffix) ==
  IF /\ Len(suffix) <= Len(str)
     /\ SubSeq(str, Len(str) - Len(suffix) + 1, Len(str)) = suffix
  THEN SubSeq(str, 1, Len(str) - Len(suffix))
  ELSE str

\* modelName := strings.TrimSuffix(filename, filepath.Ext(filename))
ModelName(path) == TrimSuffix(Base(path), Ext(Base(path)))

\* the caller-supplied registry map of the tests, extended by the string
\* identity type: "t" and "c" stand for test_models and custom_id_models
modelRegistry == (<<"t">> :> "TestModel") @@ (<<"c">> :> "CustomIDModel")

\* JSON objects: the "id" key is absent, null, or carries a number or string
\* and a "deleted_at" key may set the tombstone field
Obj(key, kind, id, name, del) ==
  [key |-> key, kind |-> kind, id |-> id, name |-> name, deleted |-> del]

NumObj(id, name) == Obj("value", "uint", id, name, FALSE)

StrObj(id, name) == Obj("value", "string", id, name, FALSE)

NoIDObj(name) == Obj("absent", "none", 0, name, FALSE)

NullIDObj(name) == Obj("null", "none", 0, name, FALSE)

DeletedObj(id, name) == Obj("value", "uint", id, name, TRUE)

File(objs) == [readable |-> TRUE, valid |-> TRUE, objs |-> objs]

Malformed == [readable |-> TRUE, valid |-> FALSE, objs |-> <<>>]

Missing == [readable |-> FALSE, valid |-> FALSE, objs |-> <<>>]

\* the files on disk: j stands for the json extension
Files ==
     (<<"d", "/", "t", ".", "j">> :> File(<<NumObj(1, "A"), NumObj(2, "B")>>))
  @@ (<<"t", ".", "j">>           :> File(<<NoIDObj("A")>>))
  @@ (<<"z", "/", "t", ".", "j">> :> File(<<NumObj(0, "A")>>))
  @@ (<<"n", "/", "t", ".", "j">> :> File(<<NumObj(1, "B"), NullIDObj("A")>>))
  @@ (<<"x", "/", "t", ".", "j">> :> File(<<DeletedObj(2, "A")>>))
  @@ (<<"f", "/", "t", ".", "j">> :> Malformed)
  @@ (<<"c", ".", "j">>           :> File(<<StrObj("custom-001", "A"), StrObj("custom-001", "B")>>))
  @@ (<<"e", "/", "c", ".", "j">> :> File(<<NoIDObj("A"), NoIDObj("B")>>))
  @@ (<<"t", ".", "u", ".", "j">> :> File(<<NumObj(1, "A")>>))
  @@ (<<"m", "/", "u", ".", "j">> :> Missing)
  @@ (<<"u", ".", "j">>           :> File(<<>>))

\* the jsonFilePaths arguments Preload is called with
Batches ==
  {<<p>> : p \in DOMAIN Files} \cup
  { <<<<"d", "/", "t", ".", "j">>, <<"t", ".", "j">>>>,
    <<<<"t", ".", "j">>, <<"d", "/", "t", ".", "j">>>>,
    <<<<"f", "/", "t", ".", "j">>, <<"t", ".", "j">>>>,
    <<<<"n", "/", "t", ".", "j">>, <<"t", ".", "j">>>>,
    <<<<"t", ".", "u", ".", "j">>, <<"d", "/", "t", ".", "j">>>>,
    <<<<"c", ".", "j">>, <<"e", "/", "c", ".", "j">>>> }

PreloadResult(d, s, e, log) == [db |-> d, seq |-> s, err |-> e, log |-> log]

Event(op, k, j, t) == [op |-> op, file |-> k, obj |-> j, t |-> t]

\* json.Unmarshal(jsonBytes, newModel) onto a new zero value of the type
Decode(t, obj) ==
  [ID      |-> IF obj.key = "value" THEN obj.id ELSE ZeroID(t),
   Name    |-> obj.name,
   Deleted |-> obj.deleted]

Decodable(t, obj) == obj.key = "value" => obj.kind = IDKind(t)

\* copyID: the found record's identity is put on the decoded model
copyID(source, dest) == [dest EXCEPT !.ID = source.ID]

existsAfterLenient(got, model) ==
  IF got.err = "nil"
  THEN [exists |-> TRUE, m |-> copyID(got.m, model), err |-> "nil", looked |-> TRUE]
  ELSE [exists |-> FALSE, m |-> model, err |-> "nil", looked |-> TRUE]

\* the outcome of recordExists' Get: found, not found (no error), or failed
existsAfter(got, model) ==
  IF got.err = "nil"
  THEN [exists |-> TRUE, m |-> copyID(got.m, model), err |-> "nil", looked |-> TRUE]
  ELSE IF got.err = "ErrRecordNotFound"
  THEN [exists |-> FALSE, m |-> model, err |-> "nil", looked |-> TRUE]
  ELSE [exists |-> FALSE, m |-> model, err |-> got.err, looked |-> TRUE]

\* the id Get is called with: objData["id"], nil for a JSON null
idOf(obj) == IF obj.key = "null" THEN NilArg ELSE IDArg(obj.id)

recordExistsNever(d, s, t, model, obj) ==
  [exists |-> FALSE, m |-> model, err |-> "nil", looked |-> obj.key # "absent"]

recordExistsByName(d, s, t, model, obj) ==
  IF \E r \in Live(d, t) : r.Name = model.Name
  THEN [exists |-> TRUE,
        m |-> copyID(CHOOSE r \in Live(d, t) : r.Name = model.Name, model),
        err |-> "nil", looked |-> TRUE]
  ELSE [exists |-> FALSE, m |-> model, err |-> "nil", looked |-> TRUE]

recordExistsUnscoped(d, s, t, model, obj) ==
  IF obj.key = "value"
  THEN existsAfter(GormFirstUnscoped(d, s, t, Fresh(t), obj.id), model)
  ELSE IF obj.key = "null"
  THEN existsAfter(AccGet(d, s, t, Fresh(t), NilArg), model)
  ELSE [exists |-> FALSE, m |-> model, err |-> "nil", looked |-> FALSE]

\* recordExists: a Get by the "id" key if there is one, "does not exist"
\* without any lookup when the key is absent
recordExists(d, s, t, model, obj) ==
  IF obj.key # "absent"
  THEN existsAfter(AccGet(d, s, t, Fresh(t), idOf(obj)), model)
  ELSE [exists |-> FALSE, m |-> model, err |-> "nil", looked |-> FALSE]

\* the result of an accessor call as the result of a preload step
logged(res, log) == PreloadResult(res.db, res.seq, res.err, log)

prepend(log, res) == [res EXCEPT !.log = log \o @]

\* the calls recordExists has issued for object j of file k
gets(ex, k, j, t) == IF ex.looked THEN <<Event("Get", k, j, t)>> ELSE <<>>

\* the second half of preloadObject: Update what exists, Create what does not
updateOrCreate(d, s, t, ex, k, j) ==
  IF ex.err # "nil" THEN PreloadResult(d, s, ex.err, gets(ex, k, j, t))
  ELSE IF ex.exists
  THEN logged(AccUpdate(d, s, t, ex.m), gets(ex, k, j, t) \o <<Event("Update", k, j, t)>>)
  ELSE logged(AccCreate(d, s, t, ex.m), gets(ex, k, j, t) \o <<Event("Create", k, j, t)>>)

\* preloadObject, object j of file k
preloadObject(d, s, t, obj, k, j) ==
  IF ~Decodable(t, obj)
  THEN PreloadResult(d, s, "failed to unmarshal to model", <<>>)
  ELSE updateOrCreate(d, s, t, recordExists(d, s, t, Decode(t, obj), obj), k, j)

RECURSIVE preloadObjects(_, _, _, _, _, _)

\* the loop of preloadFromFile after object j: return its error or go on
afterObject(one, t, objs, k, j) ==
  IF one.err # "nil" THEN one
  ELSE prepend(one.log, preloadObjects(one.db, one.seq, t, objs, k, j + 1))

\* the loop of preloadFromFile over the objects from index j on
preloadObjects(d, s, t, objs, k, j) ==
  IF j > Len(objs) THEN PreloadResult(d, s, "nil", <<>>)
  ELSE afterObject(preloadObject(d, s, t, objs[j], k, j), t, objs, k, j)

preloadFromFileParseFirst(d, s, registry, path, k) ==
  IF ~Files[path].readable
  THEN PreloadResult(d, s, "failed to read file", <<Event("ReadFile", k, 0, "")>>)
  ELSE IF ~Files[path].valid
  THEN PreloadResult(d, s, "failed to parse JSON",
                     <<Event("ReadFile", k, 0, ""), Event("Unmarshal", k, 0, "")>>)
  ELSE IF ModelName(path) \notin DOMAIN registry
  THEN PreloadResult(d, s, "no model registered",
                     <<Event("ReadFile", k, 0, ""), Event("Unmarshal", k, 0, "")>>)
  ELSE prepend(<<Event("ReadFile", k, 0, ""), Event("Unmarshal", k, 0, "")>>,
               preloadObjects(d, s, registry[ModelName(path)], Files[path].objs, k, 1))

\* preloadFromFile, file k of the call: read, resolve the type, parse, load
preloadFromFile(d, s, registry, path, k) ==
  IF ~Files[path].readable
  THEN PreloadResult(d, s, "failed to read file", <<Event("ReadFile", k, 0, "")>>)
  ELSE IF ModelName(path) \notin DOMAIN registry
  THEN PreloadResult(d, s, "no model registered", <<Event("ReadFile", k, 0, "")>>)
  ELSE IF ~Files[path].valid
  THEN PreloadResult(d, s, "failed to parse JSON",
                     <<Event("ReadFile", k, 0, ""), Event("Unmarshal", k, 0, "")>>)
  ELSE prepend(<<Event("ReadFile", k, 0, ""), Event("Unmarshal", k, 0, "")>>,
               preloadObjects(d, s, registry[ModelName(path)], Files[path].objs, k, 1))

\* the result of Preload: file is the index of the file whose error is
\* returned, 0 when the call succeeds
failedAt(res, k) == [db |-> res.db, seq |-> res.seq, err |-> res.err, log |-> res.log, file |-> k]

RECURSIVE PreloadFilesKeepGoing(_, _, _, _, _)

afterFileKeepGoing(one, registry, paths, k) ==
  IF one.err # "nil"
  THEN [failedAt(prepend(one.log, PreloadFilesKeepGoing(one.db, one.seq, registry, paths, k + 1)), k)
          EXCEPT !.err = one.err]
  ELSE prepend(one.log, PreloadFilesKeepGoing(one.db, one.seq, registry, paths, k + 1))

PreloadFilesKeepGoing(d, s, registry, paths, k) ==
  IF k > Len(paths) THEN failedAt(PreloadResult(d, s, "nil", <<>>), 0)
  ELSE afterFileKeepGoing(preloadFromFile(d, s, registry, paths[k], k), registry, paths, k)

RECURSIVE PreloadFiles(_, _, _, _, _)

\* the loop of Preload after file k: return its error or go on
afterFile(one, registry, paths, k) ==
  IF one.err # "nil" THEN failedAt(one, k)
  ELSE prepend(one.log, PreloadFiles(one.db, one.seq, registry, paths, k + 1))

\* Accessor.Preload over the files from index k on
PreloadFiles(d, s, registry, paths, k) ==
  IF k > Len(paths) THEN failedAt(PreloadResult(d, s, "nil", <<>>), 0)
  ELSE afterFile(preloadFromFile(d, s, registry, paths[k], k), registry, paths, k)

\* -------------------------------------------------------------- migration
\* the model prototypes Migrate and RegisterModel are given: the package's
\* default User, the test suite's TestModel, and the User type an
\* application declares for itself in its package main
Prototypes == {"User", "TestModel", "main.User"}

\* reflect.Type.Name
TypeName(model) == IF model = "main.User" THEN "User" ELSE model

\* reflect.Type.PkgPath: the import path of the declaring package, which
\* for the types of this package is the path the build imports it under
PkgPath(path, model) == IF model = "main.User" THEN "main" ELSE path

\* the import paths the repository's own importers use for the package
modulePath == "github.com/AIGamer28100/gobase"

PkgPaths == {"gobase", modulePath}

\* the registry as the package initialises it
globalModelRegistry == <<"User">>

isDefaultUserModel(path, model) ==
  PkgPath(path, model) = "gobase" /\ TypeName(model) = "User"

\* GetRegisteredModels() without the entries isDefaultUserModel recognises
registeredToMigrate(path, reg) ==
  SelectSeq(reg, LAMBDA model : ~isDefaultUserModel(path, model))

modelsToMigrate(path, reg, models) ==
  IF Len(models) > 0 THEN models ELSE registeredToMigrate(path, reg)

MigrateResult(d, s, targets, called, e) ==
  [db |-> d, seq |-> s, targets |-> targets, called |-> called, err |-> e]

\* the table of each model of the list is created if it does not exist
tablesWith(d, targets, empty) ==
  [t \in DOMAIN d \cup {targets[k] : k \in 1..Len(targets)} |->
     IF t \in DOMAIN d THEN d[t] ELSE empty]

\* GormDB.AutoMigrate(models...)
GormAutoMigrate(d, s, targets) ==
  MigrateResult(tablesWith(d, targets, {}), tablesWith(s, targets, 0), targets, TRUE, "nil")

\* the second half of Migrate: refuse an empty list, else AutoMigrate
migrateList(d, s, targets) ==
  IF Len(targets) = 0 THEN MigrateResult(d, s, targets, FALSE, "no models to migrate")
  ELSE GormAutoMigrate(d, s, targets)

\* Accessor.Migrate(models...)
AccMigrate(d, s, path, reg, models) ==
  IF connectionType = mongoDBType THEN MigrateResult(d, s, <<>>, FALSE, "not implemented")
  ELSE migrateList(d, s, modelsToMigrate(path, reg, models))

\* ------------------------------------------------------------------ state
\* db, seq: the committed tables and their auto-increment counters
\* tx:      the open transaction's working copy (what the transaction-bound
\*          accessor reads and writes), or closed
\* last:    the call that returned last, with its arguments and result
NoTx == [open |-> FALSE]

\* cli:     the command-line host: where main stands, its flags, the calls
\*          it has deferred, the Close calls made, and the exit code
NotStarted == [pc |-> "idle"]

\* what the accessor in use works on: the transaction-bound accessor inside
\* a transaction function, the outer accessor otherwise
View == IF tx.open THEN [db |-> tx.db, seq |-> tx.seq] ELSE [db |-> db, seq |-> seq]

Storage == View.db

\* the state after setup: the host has migrated one record type, as every
\* test of the suite does (accessor.Migrate(&TestModel{}), ...)
Init ==
  /\ \E t \in ModelTypes :
        /\ db = [x \in {t} |-> {}]
        /\ seq = [x \in {t} |-> 0]
  /\ tx = NoTx
  /\ last = [op |-> "NewAccessor"]
  /\ globalRegistry = globalModelRegistry
  /\ pkgPath = modulePath
  /\ cli = NotStarted

\* store the result of a call issued through the accessor in use
Apply(res, made) ==
  /\ IF tx.open
     THEN /\ tx.n < MaxTxOps
          /\ tx' = [tx EXCEPT !.db = res.db, !.seq = res.seq, !.n = @ + 1,
                              !.created = @ \cup made]
          /\ UNCHANGED <<db, seq>>
     ELSE /\ db' = res.db
          /\ seq' = res.seq
          /\ UNCHANGED tx
  /\ UNCHANGED globals

InRange(res) == \A t \in DOMAIN res.seq : res.seq[t] <= MaxID

Create(t, m) ==
  LET res == AccCreate(View.db, View.seq, t, m)
  IN  /\ InRange(res)
      /\ Apply(res, IF res.err = "nil" THEN {res.m.ID} ELSE {})
      /\ last' = [op |-> "Create", t |-> t, given |-> m.ID, m |-> res.m, err |-> res.err,
                  viaTx |-> tx.open]

Get(t, id) ==
  LET res == AccGet(View.db, View.seq, t, Fresh(t), id)
  IN  /\ Apply(res, {})
      /\ last' = [op |-> "Get", t |-> t, arg |-> id, m |-> res.m, err |-> res.err,
                  viaTx |-> tx.open]

Update(t, m) ==
  LET res == AccUpdate(View.db, View.seq, t, m)
  IN  /\ InRange(res)
      /\ Apply(res, {})
      /\ last' = [op |-> "Update", t |-> t, m |-> res.m, err |-> res.err,
                  viaTx |-> tx.open,
                  hadLive |-> \E r \in Live(View.db, t) : r.ID = m.ID]

Delete(t, m) ==
  LET res == AccDelete(View.db, View.seq, t, m)
  IN  /\ Apply(res, {})
      /\ last' = [op |-> "Delete", t |-> t, m |-> res.m, err |-> res.err,
                  viaTx |-> tx.open,
                  wasLive |-> \E r \in Live(View.db, t) : r.ID = m.ID]

\* Transaction(fn): GormDB.Transaction begins, fn runs with the
\* transaction-bound accessor, and its return value commits or rolls back
Begin ==
  /\ ~tx.open
  /\ connectionType # mongoDBType
  /\ tx' = [open |-> TRUE, db |-> db, seq |-> seq, n |-> 0, created |-> {},
            begin |-> db]
  /\ last' = [op |-> "Begin"]
  /\ UNCHANGED <<db, seq, globals>>

FnReturns(e) ==
  LET res == TransactionResult(e, tx.db, tx.seq, db, seq)
  IN  /\ tx.open
      /\ db' = res.db
      /\ seq' = res.seq
      /\ tx' = NoTx
      /\ last' = [op |-> "Transaction", fnErr |-> e, err |-> res.err,
                  before |-> tx.begin, work |-> tx.db, created |-> tx.created]
      /\ UNCHANGED globals

FnErrors == {"nil", "fn failed"}

\* the outer accessor used inside a transaction function: it reads through
\* the connection's own session, which sees committed data only
OuterGet(t, id) ==
  LET res == AccGet(db, seq, t, Fresh(t), id)
  IN  /\ tx.open
      /\ tx.n < MaxTxOps
      /\ tx' = [tx EXCEPT !.n = @ + 1]
      /\ last' = [op |-> "OuterGet", t |-> t, arg |-> id, m |-> res.m, err |-> res.err]
      /\ UNCHANGED <<db, seq, globals>>

\* the rows of every table: live and in all
Rows(d) == [t \in DOMAIN d |-> [live |-> Cardinality(Live(d, t)), total |-> Cardinality(d[t])]]

\* a Preload call on the paths of the last call, which succeeded
Again(paths) == last.op = "Preload" /\ last.paths = paths /\ last.err = "nil"

ReturnedAtomic(paths, res) ==
  /\ InRange(res)
  /\ Again(paths) => last.run < MaxRuns
  /\ Apply(IF res.err = "nil" THEN res
           ELSE [res EXCEPT !.db = View.db, !.seq = View.seq], {})
  /\ last' = [op |-> "Preload", paths |-> paths, err |-> res.err, file |-> res.file,
              log |-> res.log,
              run |-> IF Again(paths) THEN last.run + 1 ELSE 1,
              base |-> IF Again(paths) THEN last.base ELSE Rows(View.db),
              first |-> IF Again(paths) THEN last.first ELSE Rows(res.db),
              viaTx |-> tx.open]

\* the call has returned res; run counts the consecutive calls on the same
\* paths, each after a success
Returned(paths, res) ==
  /\ InRange(res)
  /\ Again(paths) => last.run < MaxRuns
  /\ Apply(res, {})
  /\ last' = [op |-> "Preload", paths |-> paths, err |-> res.err, file |-> res.file,
              log |-> res.log,
              run |-> IF Again(paths) THEN last.run + 1 ELSE 1,
              base |-> IF Again(paths) THEN last.base ELSE Rows(View.db),
              first |-> IF Again(paths) THEN last.first ELSE Rows(res.db),
              viaTx |-> tx.open]

\* Preload(modelRegistry, paths...)
Preload(paths) ==
  Returned(paths, PreloadFiles(View.db, View.seq, modelRegistry, paths, 1))

Crud ==
  \/ \E t \in DOMAIN db : \E m \in Instances(t) : Create(t, m)
  \/ \E t \in DOMAIN db : \E id \in IDValues(t) : Get(t, IDArg(id))
  \/ \E t \in DOMAIN db : Get(t, NilArg)
  \/ \E t \in DOMAIN db : \E m \in Instances(t) : Update(t, m)
  \/ \E t \in DOMAIN db : \E m \in Instances(t) : Delete(t, m)

Next == Crud

Spec == Init /\ [][Next]_vars

\* the preload engine, with the calls that set up its storage
NextPreload ==
  \/ \E paths \in Batches : Preload(paths)
  \/ \E t \in DOMAIN db : \E m \in Instances(t) : Create(t, m)
  \/ \E t \in DOMAIN db : \E m \in Instances(t) : Delete(t, m)

SpecPreload == Init /\ [][NextPreload]_vars

\* the accessor with scoped transactions
NextTx ==
  \/ \E t \in DOMAIN db : \E m \in Instances(t) : Create(t, m)
  \/ \E t \in DOMAIN db : \E m \in Instances(t) : Delete(t, m)
  \/ \E t \in DOMAIN db : \E id \in IDValues(t) : OuterGet(t, IDArg(id))
  \/ Begin
  \/ \E e \in FnErrors : FnReturns(e)

SpecTx == Init /\ [][NextTx]_vars

\* a connection without tables, in a build under either import path
InitMigrate ==
  /\ db = [t \in {} |-> {}]
  /\ seq = [t \in {} |-> 0]
  /\ tx = NoTx
  /\ last = [op |-> "NewAccessor"]
  /\ globalRegistry = globalModelRegistry
  /\ pkgPath \in PkgPaths
  /\ cli = NotStarted

\* RegisterModel(model)
RegisterModel(model) ==
  /\ Len(globalRegistry) < MaxRegistry
  /\ globalRegistry' = Append(globalRegistry, model)
  /\ last' = [op |-> "RegisterModel", model |-> model]
  /\ UNCHANGED <<db, seq, tx, pkgPath, cli>>

Migrated(models, res) ==
  /\ db' = res.db
  /\ seq' = res.seq
  /\ last' = [op |-> "Migrate", models |-> models, targets |-> res.targets,
              called |-> res.called, err |-> res.err, before |-> DOMAIN db]
  /\ UNCHANGED <<tx, globals>>

Migrate(models) == Migrated(models, AccMigrate(db, seq, pkgPath, globalRegistry, models))

\* the explicit lists a caller passes, the empty one included
ModelLists == UNION {[1..n -> Prototypes] : n \in 0..MaxModels}

NextMigrate ==
  \/ \E model \in Prototypes : RegisterModel(model)
  \/ \E models \in ModelLists : Migrate(models)

SpecMigrate == InitMigrate /\ [][NextMigrate]_vars

\* what IsModelRegistered is asked about: a prototype of a type, passed as
\* a pointer or by value
Prototype(type, ptr) == [type |-> type, ptr |-> ptr]

\* reflect.TypeOf, with Elem() when its Kind is Ptr: registry entries are
\* pointers to their types
derefType(model) == model.type

sameTypeName(model, registered) == TypeName(derefType(model)) = TypeName(registered)

\* modelType == registeredType
sameType(model, registered) == derefType(model) = registered

RECURSIVE isRegisteredFrom(_, _, _)

\* the loop of IsModelRegistered over the entries from index k on
isRegisteredFrom(reg, model, k) ==
  IF k > Len(reg) THEN FALSE
  ELSE IF sameType(model, reg[k]) THEN TRUE
  ELSE isRegisteredFrom(reg, model, k + 1)

IsModelRegistered(reg, model) == isRegisteredFrom(reg, model, 1)

Asked(model, registered) ==
  /\ last' = [op |-> "IsModelRegistered", model |-> model, registered |-> registered]
  /\ UNCHANGED <<db, seq, tx>>
  /\ UNCHANGED globals

IsRegistered(model) == Asked(model, IsModelRegistered(globalRegistry, model))

\* the registry under registration, migration and the accessor's and the
\* preload's use of the tables migrated
NextRegistry ==
  \/ \E model \in {"TestModel", "main.User"} : RegisterModel(model)
  \/ Migrate(<<>>)
  \/ Migrate(<<"TestModel">>)
  \/ \E type \in Prototypes : \E ptr \in BOOLEAN : IsRegistered(Prototype(type, ptr))
  \/ Create("TestModel", [ID |-> 0, Name |-> "A", Deleted |-> FALSE])
  \/ Preload(<<<<"t", ".", "j">>>>)

SpecRegistry == InitMigrate /\ [][NextRegistry]_vars

\* ---------------------------------------------------------------- queries
\* the columns of the test tables, and a field name that is no column
Columns == {"id", "name"}

Fields == Columns \cup {"color"}

\* a conditions map: the listed fields S with a value each
Cond(S, i) == [f \in S |-> IF f = "id" THEN i ELSE "A"]

\* the identities the conditions ask for
CondIDs(t) == IF IDKind(t) = "uint" THEN {1, MaxID} ELSE IDValues(t)

\* the conditions maps a caller passes: none, one or two fields
Conditions(t) ==
  {Cond(S, i) : S \in {F \in SUBSET Fields : Cardinality(F) <= 2}, i \in CondIDs(t)}

\* the orders in which range may visit the keys of a map
Orders(c) ==
  {o \in [1..Cardinality(DOMAIN c) -> DOMAIN c] : \A j, k \in DOMAIN o : o[j] = o[k] => j = k}

\* what a caller may pass for models: nil, a pointer to a struct, a pointer
\* to a slice of some element type (PlainStruct does not embed BaseModel)
ElemTypes == ModelTypes \cup {"PlainStruct"}

NilTarget == [kind |-> "nil", elem |-> ""]

SliceOf(t) == [kind |-> "slice", elem |-> t]

PtrTo(t) == [kind |-> "struct", elem |-> t]

Targets == {NilTarget, PtrTo("TestModel")} \cup {SliceOf(t) : t \in ElemTypes}

\* a pointer to a slice of pointers, of pointers to pointers, and a slice
\* passed by value
SliceOfPtr(t) == [kind |-> "sliceOfPtr", elem |-> t]

SliceOfPtrPtr(t) == [kind |-> "sliceOfPtrPtr", elem |-> t]

SliceValue(t) == [kind |-> "sliceValue", elem |-> t]

AllTargets ==
  Targets \cup {SliceOfPtr(t) : t \in ElemTypes}
          \cup {SliceOfPtrPtr("TestModel"), SliceValue("TestModel")}

\* rv.Kind() == reflect.Ptr && rv.Elem().Kind() == reflect.Slice
IsPtrToSlice(models) == models.kind \in {"slice", "sliceOfPtr", "sliceOfPtrPtr"}

tempModelOfElem(models) ==
  Value(IF models.kind = "slice" THEN "ptr" ELSE "ptrptr", StructOf(models.elem))

\* reflect.New(elemType).Interface(), elemType being the slice's element
\* type with one pointer taken off
tempModel(models) ==
  Value(IF models.kind = "sliceOfPtrPtr" THEN "ptrptr" ELSE "ptr", StructOf(models.elem))

QueryResult(rows, e) == [rows |-> rows, err |-> e]

\* query.Where("<field> = ?", value): one more clause on the query
Where(query, field, value) == Append(query, [field |-> field, value |-> value])

\* a row satisfies the clause "<column> = ?" with its argument
Satisfies(r, clause) ==
  IF clause.field = "id" THEN r.ID = clause.value ELSE r.Name = clause.value

UnknownColumn(query) == \E k \in 1..Len(query) : query[k].field \notin Columns

GormWhereFindAny(d, t, query) ==
  IF ~HasTable(d, t) THEN QueryResult({}, "no such table")
  ELSE IF UnknownColumn(query) THEN QueryResult({}, "no such column")
  ELSE QueryResult({r \in Live(d, t) : \E k \in 1..Len(query) : Satisfies(r, query[k])}, "nil")

\* query.Find(models): the clauses are joined by AND, and the model's
\* DeletedAt field adds deleted_at IS NULL
GormWhereFind(d, t, query) ==
  IF ~HasTable(d, t) THEN QueryResult({}, "no such table")
  ELSE IF UnknownColumn(query) THEN QueryResult({}, "no such column")
  ELSE QueryResult({r \in Live(d, t) : \A k \in 1..Len(query) : Satisfies(r, query[k])}, "nil")

GormCountUnscoped(d, t, query) ==
  IF ~HasTable(d, t) THEN [count |-> 0, err |-> "no such table"]
  ELSE IF UnknownColumn(query) THEN [count |-> 0, err |-> "no such column"]
  ELSE [count |-> Cardinality({r \in d[t] : \A k \in 1..Len(query) : Satisfies(r, query[k])}),
        err |-> "nil"]

\* GormDB.Model(model).Where(condition, args...).Count(&count): SELECT
\* count(*) with the condition and deleted_at IS NULL
GormCount(d, t, query) ==
  IF ~HasTable(d, t) THEN [count |-> 0, err |-> "no such table"]
  ELSE IF UnknownColumn(query) THEN [count |-> 0, err |-> "no such column"]
  ELSE [count |-> Cardinality({r \in Live(d, t) : \A k \in 1..Len(query) : Satisfies(r, query[k])}),
        err |-> "nil"]

\* Accessor.All
AccAll(d, models) ==
  IF models.kind = "nil" THEN QueryResult({}, "models cannot be nil")
  ELSE IF ~IsPtrToSlice(models) THEN QueryResult({}, "models must be a pointer to a slice")
  ELSE IF validateBaseModel(tempModel(models)) # "nil"
  THEN QueryResult({}, "model validation failed")
  ELSE IF connectionType = mongoDBType THEN QueryResult({}, "not implemented")
  ELSE IF ~HasTable(d, models.elem) THEN QueryResult({}, "no such table")
  ELSE QueryResult(GormFind(d, models.elem), "nil")

RECURSIVE whereEach(_, _, _, _)

\* for field, value := range conditions { query = query.Where(...) }, the
\* keys visited in the given order from index k on
whereEach(query, conditions, order, k) ==
  IF k > Len(order) THEN query
  ELSE whereEach(Where(query, order[k], conditions[order[k]]), conditions, order, k + 1)

AccFilterNoShortcut(d, models, conditions, order) ==
  IF models.kind = "nil" THEN QueryResult({}, "models cannot be nil")
  ELSE IF ~IsPtrToSlice(models) THEN QueryResult({}, "models must be a pointer to a slice")
  ELSE IF connectionType = mongoDBType THEN QueryResult({}, "not implemented")
  ELSE GormWhereFind(d, models.elem, whereEach(<<>>, conditions, order, 1))

\* Accessor.Filter
AccFilter(d, models, conditions, order) ==
  IF models.kind = "nil" THEN QueryResult({}, "models cannot be nil")
  ELSE IF Cardinality(DOMAIN conditions) = 0 THEN AccAll(d, models)
  ELSE IF ~IsPtrToSlice(models) THEN QueryResult({}, "models must be a pointer to a slice")
  ELSE IF connectionType = mongoDBType THEN QueryResult({}, "not implemented")
  ELSE GormWhereFind(d, models.elem, whereEach(<<>>, conditions, order, 1))

\* Accessor.FindWhere(models, condition, args...), the condition being the
\* text "<f1> = ? AND <f2> = ? ..." and args the values
AccFindWhere(d, models, query) ==
  IF models.kind = "nil" THEN QueryResult({}, "models cannot be nil")
  ELSE IF connectionType = mongoDBType THEN QueryResult({}, "not implemented")
  ELSE GormWhereFind(d, models.elem, query)

\* Accessor.Count(model, condition, args...), the condition being the text
\* "<f1> = ? AND <f2> = ? ..." and args the values: one clause per conjunct
AccCount(d, t, query) ==
  IF connectionType = mongoDBType THEN [count |-> 0, err |-> "not implemented"]
  ELSE GormCount(d, t, query)

\* the result of a query is kept; storage is what the call left
Queried(fields) ==
  /\ last' = fields
  /\ UNCHANGED <<db, seq, tx, globals>>

AllReturned(models, res) ==
  Queried([op |-> "All", models |-> models, rows |-> res.rows, err |-> res.err])

All(models) == AllReturned(models, AccAll(View.db, models))

FilterReturned(models, conditions, res) ==
  Queried([op |-> "Filter", models |-> models, conditions |-> conditions,
           rows |-> res.rows, err |-> res.err])

Filter(models, conditions, order) ==
  FilterReturned(models, conditions, AccFilter(View.db, models, conditions, order))

CountReturned(t, conditions, res) ==
  Queried([op |-> "Count", t |-> t, conditions |-> conditions,
           count |-> res.count, err |-> res.err])

Count(t, conditions, order) ==
  CountReturned(t, conditions, AccCount(View.db, t, whereEach(<<>>, conditions, order, 1)))

FindWhereReturned(models, conditions, res) ==
  Queried([op |-> "FindWhere", models |-> models, conditions |-> conditions,
           rows |-> res.rows, err |-> res.err])

FindWhere(models, conditions, order) ==
  FindWhereReturned(models, conditions,
                    AccFindWhere(View.db, models, whereEach(<<>>, conditions, order, 1)))

\* the accessor's queries, with the calls that set up their storage
NextQuery ==
  \/ \E t \in DOMAIN db : \E m \in Instances(t) : Create(t, m)
  \/ \E t \in DOMAIN db : \E m \in Instances(t) : Delete(t, m)
  \/ \E models \in AllTargets : All(models)
  \/ \E models \in Targets : \E t \in DOMAIN db : \E c \in Conditions(t) :
       \E order \in Orders(c) : Filter(models, c, order)
  \/ \E t \in DOMAIN db \cup {"PlainStruct"} : \E u \in DOMAIN db : \E c \in Conditions(u) :
       \E order \in Orders(c) : Count(t, c, order)
  \/ \E models \in Targets \ {PtrTo("TestModel")} : \E t \in DOMAIN db :
       \E c \in Conditions(t) : \E order \in Orders(c) : FindWhere(models, c, order)

SpecQuery == Init /\ [][NextQuery]_vars

\* -------------------------------------------------------------- superuser
\* A string is the sequence of its characters.
upperCase == {"A", "B", "C", "D", "E", "F", "G", "H", "I", "J", "K", "L", "M", "N", "O", "P", "Q", "R", "S", "T", "U", "V", "W", "X", "Y", "Z"}

lowerCase == {"a", "b", "c", "d", "e", "f", "g", "h", "i", "j", "k", "l", "m", "n", "o", "p", "q", "r", "s", "t", "u", "v", "w", "x", "y", "z"}

digits == {"0", "1", "2", "3", "4", "5", "6", "7", "8", "9"}

\* unicode.IsSpace, for the characters used here
whiteSpace == {" ", "\t", "\n"}

Repeat(c, n) == [k \in 1..n |-> c]

MinOf(S) == CHOOSE x \in S : \A y \in S : x <= y

\* strings.TrimSpace
TrimSpace(str) ==
  IF \A k \in 1..Len(str) : str[k] \in whiteSpace THEN <<>>
  ELSE SubSeq(str, MinOf({k \in 1..Len(str) : str[k] \notin whiteSpace}),
                   MaxOf({k \in 1..Len(str) : str[k] \notin whiteSpace}))

minUsernameLen == 3

maxUsernameLen == 150

minPasswordLen == 8

letters == upperCase \cup lowerCase

\* the character classes of the two patterns
usernameChars == letters \cup digits \cup {"_"}

localChars == letters \cup digits \cup {".", "_", "%", "+", "-"}

domainChars == letters \cup digits \cup {".", "-"}

\* ^[a-zA-Z0-9_]+$
usernameRegex(str) ==
  /\ Len(str) >= 1
  /\ \A k \in 1..Len(str) : str[k] \in usernameChars

\* ^[a-zA-Z0-9._%+-]+@[a-zA-Z0-9.-]+\.[a-zA-Z]{2,}$ : an "@" at some index
\* at and a "." at some index dot that split str into the three parts
emailRegex(str) ==
  \E at, dot \in 1..Len(str) :
    /\ str[at] = "@"
    /\ str[dot] = "."
    /\ 1 < at
    /\ at + 1 < dot
    /\ dot + 2 <= Len(str)
    /\ \A k \in 1..(at - 1) : str[k] \in localChars
    /\ \A k \in (at + 1)..(dot - 1) : str[k] \in domainChars
    /\ \A k \in (dot + 1)..Len(str) : str[k] \in letters

hasUpperCase(str) == \E k \in 1..Len(str) : str[k] \in upperCase

hasLowerCase(str) == \E k \in 1..Len(str) : str[k] \in lowerCase

hasDigit(str) == \E k \in 1..Len(str) : str[k] \in digits

validatePasswordThenEmail(username, email, password) ==
  IF TrimSpace(username) = <<>> THEN "username cannot be empty"
  ELSE IF Len(username) < minUsernameLen \/ Len(username) > maxUsernameLen
  THEN "username must be between 3 and 150 characters"
  ELSE IF ~usernameRegex(username)
  THEN "username can only contain letters, numbers, and underscores"
  ELSE IF Len(password) < minPasswordLen THEN "password must be at least 8 characters long"
  ELSE IF ~hasUpperCase(password) THEN "password must contain at least one uppercase letter"
  ELSE IF ~hasLowerCase(password) THEN "password must contain at least one lowercase letter"
  ELSE IF ~hasDigit(password) THEN "password must contain at least one digit"
  ELSE IF TrimSpace(email) = <<>> THEN "email cannot be empty"
  ELSE IF ~emailRegex(email) THEN "invalid email format"
  ELSE "nil"

\* validateSuperuserInputs: the message of the first rule that fails
validateSuperuserInputs(username, email, password) ==
  IF TrimSpace(username) = <<>> THEN "username cannot be empty"
  ELSE IF Len(username) < minUsernameLen \/ Len(username) > maxUsernameLen
  THEN "username must be between 3 and 150 characters"
  ELSE IF ~usernameRegex(username)
  THEN "username can only contain letters, numbers, and underscores"
  ELSE IF TrimSpace(email) = <<>> THEN "email cannot be empty"
  ELSE IF ~emailRegex(email) THEN "invalid email format"
  ELSE IF Len(password) < minPasswordLen THEN "password must be at least 8 characters long"
  ELSE IF ~hasUpperCase(password) THEN "password must contain at least one uppercase letter"
  ELSE IF ~hasLowerCase(password) THEN "password must contain at least one lowercase letter"
  ELSE IF ~hasDigit(password) THEN "password must contain at least one digit"
  ELSE "nil"

RoleUser == "user"

RoleAdmin == "admin"

RoleSuperuser == "superuser"

\* a User value: the fields the accessor and the hook read
UserOf(username, email, hash, role, active, staff, super) ==
  [ID |-> 0, Username |-> username, Email |-> email, PasswordHash |-> hash, Role |-> role,
   IsActive |-> active, IsStaff |-> staff, IsSuperuser |-> super, Deleted |-> FALSE]

Reverse(str) == [k \in 1..Len(str) |-> str[Len(str) + 1 - k]]

\* bcrypt.GenerateFromPassword: version and cost, the salt drawn at random,
\* and a digest of the password (here its mirror image)
bcryptHash(password, salt) == <<"$", "2", "a", "$", "1", "0", "$">> \o salt \o Reverse(password)

UserResult(u, e) == [u |-> u, err |-> e]

SetPasswordPlain(u, password, salt) ==
  IF Len(password) < minPasswordLen
  THEN UserResult(u, "password must be at least 8 characters long")
  ELSE UserResult([u EXCEPT !.PasswordHash = password], "nil")

\* User.SetPassword
SetPassword(u, password, salt) ==
  IF Len(password) < minPasswordLen
  THEN UserResult(u, "password must be at least 8 characters long")
  ELSE UserResult([u EXCEPT !.PasswordHash = bcryptHash(password, salt)], "nil")

IsValidEmail(u) == emailRegex(u.Email)

IsValidUsername(u) ==
  IF Len(u.Username) < minUsernameLen \/ Len(u.Username) > maxUsernameLen THEN FALSE
  ELSE usernameRegex(u.Username)

\* the last part of BeforeCreate: the flags the role implies
roleFlagsNone(u) == UserResult(u, "nil")

roleFlags(u) ==
  IF u.Role = RoleSuperuser
  THEN UserResult([u EXCEPT !.IsSuperuser = TRUE, !.IsStaff = TRUE], "nil")
  ELSE IF u.Role = RoleAdmin THEN UserResult([u EXCEPT !.IsStaff = TRUE], "nil")
  ELSE UserResult(u, "nil")

\* the middle part of BeforeCreate: only the three roles pass
validRole(u) ==
  IF u.Role \notin {RoleUser, RoleAdmin, RoleSuperuser} THEN UserResult(u, "invalid role")
  ELSE roleFlags(u)

\* User.BeforeCreate, the hook GORM runs before the INSERT
BeforeCreate(u) ==
  IF u.Username = <<>> THEN UserResult(u, "username is required")
  ELSE IF u.Email = <<>> THEN UserResult(u, "email is required")
  ELSE IF u.PasswordHash = <<>> THEN UserResult(u, "password is required")
  ELSE IF ~IsValidEmail(u) THEN UserResult(u, "invalid email format")
  ELSE IF ~IsValidUsername(u) THEN UserResult(u, "invalid username format")
  ELSE IF u.Role = "" THEN validRole([u EXCEPT !.Role = RoleUser])
  ELSE validRole(u)

\* the row INSERTed for u under key id: is_active has the column default
\* true, which GORM uses in place of a zero (false) field value
userRow(u, id) == [u EXCEPT !.ID = id, !.IsActive = TRUE]

insertUserNoIndex(d, s, u, id) ==
  IF \E r \in d["User"] : r.ID = id
  THEN Result(d, s, u, "UNIQUE constraint failed")
  ELSE Result([d EXCEPT !["User"] = @ \cup {userRow(u, id)}],
              [s EXCEPT !["User"] = Max(@, id)], userRow(u, id), "nil")

\* INSERT INTO users: the primary key and the unique indexes on username
\* and email cover every row of the table, soft-deleted ones too
insertUser(d, s, u, id) ==
  IF \E r \in d["User"] : r.ID = id \/ r.Username = u.Username \/ r.Email = u.Email
  THEN Result(d, s, u, "UNIQUE constraint failed")
  ELSE Result([d EXCEPT !["User"] = @ \cup {userRow(u, id)}],
              [s EXCEPT !["User"] = Max(@, id)], userRow(u, id), "nil")

\* GormDB.Create(&User{...}) once the hook has run
createHooked(d, s, hooked) ==
  IF hooked.err # "nil" THEN Result(d, s, hooked.u, hooked.err)
  ELSE IF ~HasTable(d, "User") THEN NoTable(d, s, hooked.u)
  ELSE insertUser(d, s, hooked.u,
                  IF hooked.u.ID = 0 THEN NextID(d, s, "User") ELSE hooked.u.ID)

\* Accessor.Create on a User
AccCreateUser(d, s, u) ==
  IF ~ValidateBaseModel("User") THEN Result(d, s, u, "model validation failed")
  ELSE IF connectionType = mongoDBType THEN Result(d, s, u, "not implemented")
  ELSE createHooked(d, s, BeforeCreate(u))

\* the text is a decimal integer literal
IsIntegerText(str) == Len(str) >= 1 /\ \A k \in 1..Len(str) : str[k] \in digits

DigitValue(c) == CHOOSE v \in 0..9 : <<"0", "1", "2", "3", "4", "5", "6", "7", "8", "9">>[v + 1] = c

RECURSIVE IntegerOf(_)

\* the integer a decimal literal denotes
IntegerOf(str) ==
  IF Len(str) = 0 THEN 0
  ELSE 10 * IntegerOf(SubSeq(str, 1, Len(str) - 1)) + DigitValue(str[Len(str)])

getByUsername(d, username) ==
  /\ ValidateBaseModel("User")
  /\ connectionType # mongoDBType
  /\ HasTable(d, "User")
  /\ \E r \in Live(d, "User") : r.Username = username

\* accessor.Get(existingUser, username) returned nil: WHERE id = '<username>'
\* on the integer key column, where SQLite converts a text operand that is
\* a well-formed integer literal to the integer before comparing
getByUsernameAsID(d, username) ==
  /\ ValidateBaseModel("User")
  /\ connectionType # mongoDBType
  /\ HasTable(d, "User")
  /\ IsIntegerText(username)
  /\ \E r \in Live(d, "User") : r.ID = IntegerOf(username)

\* accessor.Filter(&users, map[string]interface{}{"email": email})
filterByEmail(d, email) ==
  IF connectionType = mongoDBType THEN QueryResult({}, "not implemented")
  ELSE IF ~HasTable(d, "User") THEN QueryResult({}, "no such table")
  ELSE QueryResult({r \in Live(d, "User") : r.Email = email}, "nil")

\* what CreateSuperuser returns: the wrapping message, the wrapped error,
\* and the accessor calls it issued
SuperuserResult(d, s, kind, cause, ops) ==
  [db |-> d, seq |-> s, err |-> [kind |-> kind, cause |-> cause], ops |-> ops]

\* accessor.Create(superuser) has returned
superuserCreated(res) ==
  IF res.err # "nil"
  THEN SuperuserResult(res.db, res.seq, "failed to create superuser", res.err,
                       <<"Get", "Filter", "Create">>)
  ELSE SuperuserResult(res.db, res.seq, "nil", "nil", <<"Get", "Filter", "Create">>)

\* superuser.SetPassword(password) has returned
passwordSet(d, s, hashed) ==
  IF hashed.err # "nil"
  THEN SuperuserResult(d, s, "failed to set password", hashed.err, <<"Get", "Filter">>)
  ELSE superuserCreated(AccCreateUser(d, s, hashed.u))

\* the Filter by email has returned
emailChecked(d, s, username, email, password, salt, users) ==
  IF users.err # "nil"
  THEN SuperuserResult(d, s, "failed to check email uniqueness", users.err, <<"Get", "Filter">>)
  ELSE IF Cardinality(users.rows) > 0
  THEN SuperuserResult(d, s, "user with email already exists", "nil", <<"Get", "Filter">>)
  ELSE passwordSet(d, s, SetPassword(UserOf(username, email, <<>>, RoleSuperuser, TRUE, TRUE, TRUE),
                                     password, salt))

\* validateSuperuserInputs has returned
validated(d, s, username, email, password, salt, invalid) ==
  IF invalid # "nil" THEN SuperuserResult(d, s, "validation failed", invalid, <<>>)
  ELSE IF getByUsernameAsID(d, username)
  THEN SuperuserResult(d, s, "user with username already exists", "nil", <<"Get">>)
  ELSE emailChecked(d, s, username, email, password, salt, filterByEmail(d, email))

\* CreateSuperuser(accessor, username, email, password); salt is what the
\* hashing draws
createSuperuser(d, s, username, email, password, salt) ==
  validated(d, s, username, email, password, salt,
            validateSuperuserInputs(username, email, password))

\* ---- the inputs of the superuser and user calls
admin == <<"a", "d", "m", "i", "n">>

numeric == <<"0", "0", "1">>

\* the longest username that passes and the shortest that is too long
longest == Repeat("a", maxUsernameLen)

tooLong == Repeat("a", maxUsernameLen + 1)

ValidUsernames == {admin, numeric}

InvalidUsernames ==
  {<<>>, <<" ", " ", " ">>, <<"a", "b">>, <<"a", "b", " ">>, <<"a", "d", "-", "m">>}

emailA == <<"a", "@", "x", ".", "c", "o">>

emailB == <<"b", "@", "x", ".", "c", "o">>

ValidEmails == {emailA, emailB}

InvalidEmails == {<<>>, <<" ">>, <<"a", ".", "c", "o">>, <<"a", "@", "x", ".", "c">>}

strong == <<"S", "e", "c", "r", "e", "t", "1", "2">>

\* too short only; too short and no uppercase; no uppercase; no lowercase;
\* no digit; no uppercase and no digit
WeakPasswords ==
  {<<"S", "h", "o", "r", "t", "1", "2">>, <<"s", "h", "o", "r", "t", "1">>, <<"a", "l", "l", "l", "o", "w", "e", "r", "1">>, <<"A", "L", "L", "U", "P", "P", "E", "R", "1">>, <<"N", "o", "D", "i", "g", "i", "t", "s", "X">>, <<"a", "l", "l", "l", "o", "w", "e", "r", "x">>}

Salts == {<<"s">>, <<"t">>}

Credentials(username, email, password) ==
  [username |-> username, email |-> email, password |-> password]

\* what CreateSuperuser is called with: every valid pairing, and each
\* invalid value alone and together with invalid values of the later fields
SuperuserInputs ==
  {Credentials(u, e, strong) : u \in ValidUsernames, e \in ValidEmails}
    \cup {Credentials(u, emailA, strong) : u \in InvalidUsernames}
    \cup {Credentials(u, <<"a", ".", "c", "o">>, <<"s", "h", "o", "r", "t", "1">>) : u \in InvalidUsernames}
    \cup {Credentials(admin, e, strong) : e \in InvalidEmails}
    \cup {Credentials(admin, e, <<"s", "h", "o", "r", "t", "1">>) : e \in InvalidEmails}
    \cup {Credentials(admin, emailA, p) : p \in WeakPasswords}

\* a connection on which the users table has been migrated
InitUsers ==
  /\ db = [t \in {"User"} |-> {}]
  /\ seq = [t \in {"User"} |-> 0]
  /\ tx = NoTx
  /\ last = [op |-> "NewAccessor"]
  /\ globalRegistry = globalModelRegistry
  /\ pkgPath = modulePath
  /\ cli = NotStarted

SuperuserReturned(in, res) ==
  /\ InRange(res)
  /\ Apply(res, {})
  /\ last' = [op |-> "CreateSuperuser", in |-> in, err |-> res.err, ops |-> res.ops,
              before |-> View.db["User"]]

CreateSuperuser(in, salt) ==
  SuperuserReturned(in, createSuperuser(View.db, View.seq, in.username, in.email,
                                        in.password, salt))

\* the superuser provisioning, and Delete on the accounts it made
NextSuperuser ==
  \/ \E in \in SuperuserInputs : \E salt \in Salts : CreateSuperuser(in, salt)
  \/ \E u \in View.db["User"] : Delete("User", u)

SpecSuperuser == InitUsers /\ [][NextSuperuser]_vars

\* a password hash as SetPassword leaves it
someHash == bcryptHash(strong, <<"s">>)

RoleValues == {"", RoleUser, RoleAdmin, RoleSuperuser, "root"}

\* the User values Create is called with: two well-formed accounts under
\* every role and flag setting, and one account with a field left out or
\* malformed
UserInputs ==
  {UserOf(admin, emailA, someHash, role, TRUE, staff, super) :
     role \in RoleValues, staff \in BOOLEAN, super \in BOOLEAN}
    \cup {UserOf(numeric, emailB, someHash, role, FALSE, FALSE, FALSE) : role \in RoleValues}
    \cup {UserOf(u, emailA, someHash, "", TRUE, FALSE, FALSE) : u \in {<<>>, <<"a", "b">>, <<"a", "d", "-", "m">>, tooLong}}
    \cup {UserOf(admin, e, someHash, "", TRUE, FALSE, FALSE) : e \in {<<>>, <<"a", ".", "c", "o">>}}
    \cup {UserOf(admin, emailA, <<>>, RoleAdmin, TRUE, FALSE, FALSE)}

UserCreated(u, res) ==
  /\ InRange(res)
  /\ Apply(res, IF res.err = "nil" THEN {res.m.ID} ELSE {})
  /\ last' = [op |-> "Create", t |-> "User", given |-> u, m |-> res.m, err |-> res.err,
              before |-> View.db["User"]]

\* accessor.Create(&User{...})
CreateUser(u) == UserCreated(u, AccCreateUser(View.db, View.seq, u))

\* Create and Delete on the users table
NextUser ==
  \/ \E u \in UserInputs : CreateUser(u)
  \/ \E u \in View.db["User"] : Delete("User", u)

SpecUser == InitUsers /\ [][NextUser]_vars

\* ----------------------------------------------------------- configuration
\* strconv.Atoi: an optional sign and then one or more decimal digits
Atoi(str) ==
  LET body == IF Len(str) >= 1 /\ str[1] \in {"+", "-"} THEN Tail(str) ELSE str
  IN  IF ~IsIntegerText(body) THEN [ok |-> FALSE, n |-> 0]
      ELSE [ok |-> TRUE,
            n |-> IF str[1] = "-" THEN 0 - IntegerOf(body) ELSE IntegerOf(body)]

\* the environment LoadConfig reads; an unset variable reads as ""
Env(type, host, user, name, port) ==
  [DB_TYPE |-> type, DB_HOST |-> host, DB_USER |-> user, DB_NAME |-> name,
   DB_PORT |-> port]

DatabaseConfig(type, host, user, name, port) ==
  [Type |-> type, Host |-> host, User |-> user, Name |-> name, Port |-> port]

NoConfig == DatabaseConfig("", "", "", "", 0)

ConfigResult(config, err) == [config |-> config, err |-> err]

defaultPostgresPort == 5432

defaultMongoPort == 27017

withDefaults(config, port) ==
  [config EXCEPT !.Host = IF @ = "" THEN "localhost" ELSE @,
                 !.Port = IF @ = 0 THEN port ELSE @]

\* the switch on config.Type that ends LoadConfig, without its defaults
validateTypeOnly(config) ==
  IF config.Type = "postgres"
  THEN IF config.User = ""
       THEN ConfigResult(NoConfig, "DB_USER is required for PostgreSQL")
       ELSE ConfigResult(config, "nil")
  ELSE IF config.Type \in {"sqlite", mongoDBType} THEN ConfigResult(config, "nil")
  ELSE ConfigResult(NoConfig, "unsupported database type")

\* the switch on config.Type that ends LoadConfig
setDefaults(config) ==
  IF config.Type = "postgres"
  THEN IF config.User = ""
       THEN ConfigResult(NoConfig, "DB_USER is required for PostgreSQL")
       ELSE ConfigResult(withDefaults(config, defaultPostgresPort), "nil")
  ELSE IF config.Type = "sqlite" THEN ConfigResult(config, "nil")
  ELSE IF config.Type = mongoDBType
  THEN ConfigResult(withDefaults(config, defaultMongoPort), "nil")
  ELSE ConfigResult(NoConfig, "unsupported database type")

\* the checks that follow the parse of DB_PORT
required(config) ==
  IF config.Type = "" THEN ConfigResult(NoConfig, "DB_TYPE is required")
  ELSE IF config.Name = "" THEN ConfigResult(NoConfig, "DB_NAME is required")
  ELSE setDefaults(config)

parsed(env, port) ==
  IF env.DB_PORT # <<>> /\ ~port.ok
  THEN ConfigResult(NoConfig, "invalid DB_PORT value")
  ELSE required(DatabaseConfig(env.DB_TYPE, env.DB_HOST, env.DB_USER,
                               env.DB_NAME, port.n))

LoadConfig(env) == parsed(env, Atoi(env.DB_PORT))

\* the environments: each variable unset or set, DB_TYPE also to a backend
\* the package does not know, DB_PORT also to texts Atoi takes and refuses
PortTexts ==
  {<<>>, <<"5", "4", "3", "3">>, <<"0">>, <<"-", "1">>, <<"+", "7">>,
   <<"a", "b", "c">>, <<"5", "4", "a">>, <<" ", "5">>, <<"-">>}

Envs ==
  {Env(type, host, user, name, port) :
     type \in {"", "postgres", "sqlite", mongoDBType, "invalid"},
     host \in {"", "db.local"}, user \in {"", "testuser"},
     name \in {"", "test.db"}, port \in PortTexts}

ConfigLoaded(env, res) ==
  /\ last' = [op |-> "LoadConfig", env |-> env, config |-> res.config,
              err |-> res.err]
  /\ UNCHANGED <<db, seq, tx>>
  /\ UNCHANGED globals

Load(env) == ConfigLoaded(env, LoadConfig(env))

NextConfig == \E env \in Envs : Load(env)

SpecConfig == Init /\ [][NextConfig]_vars

\* ------------------------------------------------------- command-line host
\* cmd/gobase: main parses its flags, opens the connection, defers its
\* Close, and runs the commands its flags name, in the order migrate,
\* createsuperuser, preload.
Flags(version, migrate, createsuperuser, preload, credentials, files) ==
  [version |-> version, migrate |-> migrate,
   createsuperuser |-> createsuperuser, preload |-> preload,
   credentials |-> credentials, files |-> files]

\* the -files values: none, a file of the users type, a file that is not
\* there, a file of a type the command does not know
FileLists ==
  {<<>>, <<<<"u", ".", "j">>>>, <<<<"m", "/", "u", ".", "j">>>>,
   <<<<"u", ".", "j">>, <<"t", ".", "j">>>>}

CommandLines ==
  {Flags(v, m, c, p, in, fs) :
     v \in BOOLEAN, m \in BOOLEAN, c \in BOOLEAN, p \in BOOLEAN,
     in \in {Credentials(admin, emailA, strong),
             Credentials(admin, emailA, <<"s", "h", "o", "r", "t", "1">>)},
     fs \in FileLists}

\* the environments the command is started in
HostEnvs ==
  {Env("sqlite", "", "", "test.db", <<>>), Env("", "", "", "test.db", <<>>),
   Env("sqlite", "", "", "", <<>>), Env("postgres", "", "testuser", "testdb", <<>>)}

\* the registry handlePreload builds: "u" stands for users
hostRegistry == <<"u">> :> "User"

\* connected: InitDB has returned a connection; closes: the calls of
\* Connection.Close made so far
Process(pc, flags) ==
  [pc |-> pc, flags |-> flags, connected |-> FALSE, deferred |-> <<>>,
   closes |-> 0, code |-> 0]

\* os.Exit, which log.Fatal and log.Fatalf end with: the process ends at
\* once, and deferred calls are not run
osExit(p, code) == [p EXCEPT !.pc = "exited", !.code = code]

logFatal(p) == osExit(p, 1)

\* main returns: its deferred calls run, each Close releases the handle
returnFromMain(p) ==
  [p EXCEPT !.pc = "exited", !.code = 0, !.deferred = <<>>,
            !.closes = @ + Len(p.deferred)]

InitHost ==
  /\ db \in {[t \in {} |-> {}], [t \in {"User"} |-> {}]}
  /\ seq = [t \in DOMAIN db |-> 0]
  /\ tx = NoTx
  /\ last = [op |-> "NewAccessor"]
  /\ globalRegistry = globalModelRegistry
  /\ pkgPath \in PkgPaths
  /\ cli = NotStarted

\* flag.Parse and the two commands that need no connection
Main(flags) ==
  /\ cli.pc = "idle"
  /\ cli' = IF flags.version \/ (~flags.migrate /\ ~flags.createsuperuser /\ ~flags.preload)
            THEN returnFromMain(Process("flags", flags))
            ELSE Process("initdb", flags)
  /\ UNCHANGED <<db, seq, tx, last, globalRegistry, pkgPath>>

\* gobase.InitDB and defer connection.Close(): the connection opens when
\* the configuration loads and names the backend that is there
Connected(env, config) ==
  /\ cli.pc = "initdb"
  /\ cli' = IF config.err # "nil" \/ config.config.Type # connectionType
            THEN osExit(cli, 1)
            ELSE [cli EXCEPT !.pc = "migrate", !.connected = TRUE,
                             !.deferred = <<"Close">> \o @]
  /\ last' = [op |-> "InitDB", env |-> env, err |-> config.err]
  /\ UNCHANGED <<db, seq, tx, globalRegistry, pkgPath>>

InitDB(env) == Connected(env, LoadConfig(env))

Handled(op, res, err, next) ==
  /\ db' = res.db
  /\ seq' = res.seq
  /\ cli' = IF err THEN logFatal(cli) ELSE [cli EXCEPT !.pc = next]
  /\ last' = [op |-> op, failed |-> err]
  /\ UNCHANGED <<tx, globalRegistry, pkgPath>>

Skipped(next) ==
  /\ cli' = [cli EXCEPT !.pc = next]
  /\ UNCHANGED <<db, seq, tx, last, globalRegistry, pkgPath>>

migrateHandled(res) == Handled("handleMigrate", res, res.err # "nil", "createsuperuser")

\* if *migrateCmd { handleMigrate(accessor) }
handleMigrate ==
  /\ cli.pc = "migrate"
  /\ IF cli.flags.migrate
     THEN migrateHandled(AccMigrate(db, seq, pkgPath, globalRegistry, <<>>))
     ELSE Skipped("createsuperuser")

superuserHandled(res) ==
  Handled("handleCreateSuperuser", res, res.err.kind # "nil", "preload")

\* if *createSuperuserCmd { handleCreateSuperuser(...) }
handleCreateSuperuser(salt) ==
  /\ cli.pc = "createsuperuser"
  /\ IF cli.flags.createsuperuser
     THEN superuserHandled(createSuperuser(db, seq, cli.flags.credentials.username,
                                           cli.flags.credentials.email,
                                           cli.flags.credentials.password, salt))
     ELSE /\ salt = <<"s">>
          /\ Skipped("preload")

preloadHandled(res) == Handled("handlePreload", res, res.err # "nil", "return")

\* if *preloadCmd { handlePreload(accessor, *jsonFiles) }
handlePreload ==
  /\ cli.pc = "preload"
  /\ IF ~cli.flags.preload THEN Skipped("return")
     ELSE IF cli.flags.files = <<>>
     THEN Handled("handlePreload", [db |-> db, seq |-> seq], TRUE, "return")
     ELSE preloadHandled(PreloadFiles(db, seq, hostRegistry, cli.flags.files, 1))

\* the end of main
Return ==
  /\ cli.pc = "return"
  /\ cli' = returnFromMain(cli)
  /\ UNCHANGED <<db, seq, tx, last, globalRegistry, pkgPath>>

NextHost ==
  \/ \E flags \in CommandLines : Main(flags)
  \/ \E env \in HostEnvs : InitDB(env)
  \/ handleMigrate
  \/ \E salt \in Salts : handleCreateSuperuser(salt)
  \/ handlePreload
  \/ Return

SpecHost == InitHost /\ [][NextHost]_vars

\* ---------------------------------------------------- shape validation runs
\* Accessor.ValidateModel on any value a caller may pass
ValidateModelReturned(v, err) ==
  /\ last' = [op |-> "ValidateModel", model |-> v, err |-> err]
  /\ UNCHANGED <<db, seq, tx>>
  /\ UNCHANGED globals

ValidateModel(v) == ValidateModelReturned(v, validateBaseModel(v))

NextValidate == \E v \in Values : ValidateModel(v)

SpecValidate == Init /\ [][NextValidate]_vars

\* ----------------------------------------------------------------- claims
\* what Get by identity v returns in the current state of the accessor in use
GetNow(t, v) == AccGet(View.db, View.seq, t, Fresh(t), IDArg(v))

\* C1: Delete is a soft delete.  After Delete(r) succeeds on a live record,
\* Get by r's identity fails with not-found and r is in no All result, yet
\* the row is still stored and the unscoped count still counts it; and no
\* step of the accessor removes a stored row.
C1_SoftDelete ==
  /\ [](last.op = "Delete" /\ last.err = "nil" /\ last.wasLive =>
          /\ GetNow(last.t, last.m.ID).err = "ErrRecordNotFound"
          /\ \A r \in GormFind(Storage, last.t) : r.ID # last.m.ID
          /\ \E r \in Storage[last.t] : r.ID = last.m.ID /\ r.Deleted
          /\ UnscopedCount(Storage, last.t, last.m.ID) = 1)
  /\ [][\A t \in DOMAIN db : \A r \in db[t] : \E r2 \in db'[t] : r2.ID = r.ID]_vars

C1_Witness ==
  /\ last.op = "Delete" /\ last.err = "nil" /\ last.wasLive
  /\ UnscopedCount(Storage, last.t, last.m.ID) = 1
  /\ GetNow(last.t, last.m.ID).err = "ErrRecordNotFound"

\* the round trip of C2: Get by the identity r carries after Create returns
\* r's identity and caller-set attribute
RoundTrip ==
  LET g == GetNow(last.t, last.m.ID)
  IN  g.err = "nil" /\ g.m.ID = last.m.ID /\ g.m.Name = last.m.Name

\* C2 as stated: after Create(r) succeeds, r carries a non-zero identity
\* (numeric or string identity alike) and Get by it returns r.
C2_Original ==
  last.op = "Create" /\ last.err = "nil" =>
    last.m.ID # ZeroID(last.t) /\ RoundTrip

\* C2 amended: after Create(r) succeeds for an r whose DeletedAt is unset,
\* Get by r's identity returns r; a numeric identity is non-zero (assigned
\* when unset), a string identity is exactly the one the caller gave, the
\* empty one included.
C2_CreateGetRoundTrip ==
  last.op = "Create" /\ last.err = "nil" /\ ~last.m.Deleted =>
    /\ RoundTrip
    /\ IDKind(last.t) = "uint" => last.m.ID # 0
    /\ IDKind(last.t) = "string" => last.m.ID = last.given

C2_Witness ==
  /\ last.op = "Create" /\ last.err = "nil" /\ ~last.m.Deleted
  /\ IDKind(last.t) = "uint" /\ last.given = 0 /\ last.m.ID # 0
  /\ RoundTrip

C4_UpdateNotFound ==
  [][last'.op = "Update" /\ ~last'.hadLive =>
       last'.err = "ErrRecordNotFound" /\ Storage' = Storage]_vars

\* C5: a transaction whose function returns an error leaves storage as it
\* was before the transaction, none of the records created through the
\* transaction-bound accessor is present, and Transaction returns that error.
C5_Rollback ==
  last.op = "Transaction" /\ last.fnErr # "nil" =>
    /\ db = last.before
    /\ \A t \in DOMAIN db : \A r \in db[t] : r.ID \notin last.created
    /\ last.err = last.fnErr

C5_Witness ==
  /\ last.op = "Transaction" /\ last.fnErr # "nil"
  /\ Cardinality(last.created) = 2
  /\ last.work # last.before

ObjsOf(paths) ==
  {kj \in (1..Len(paths)) \X (1..3) : kj[2] <= Len(Files[paths[kj[1]]].objs)}

ObjAt(paths, kj) == Files[paths[kj[1]]].objs[kj[2]]

\* every object carries an "id" key
AllCarryID(paths) ==
  ObjsOf(paths) # {} /\ \A kj \in ObjsOf(paths) : ObjAt(paths, kj).key # "absent"

\* every object carries a non-zero "id" and no "deleted_at"
AllCarryNonZeroID(paths) ==
  /\ ObjsOf(paths) # {}
  /\ \A kj \in ObjsOf(paths) :
        LET o == ObjAt(paths, kj)
        IN  /\ o.key = "value"
            /\ o.kind = "uint" => o.id # 0
            /\ o.kind = "string" => o.id # ""
            /\ ~o.deleted

\* no object carries an "id" key
AllIDless(paths) ==
  ObjsOf(paths) # {} /\ \A kj \in ObjsOf(paths) : ObjAt(paths, kj).key = "absent"

\* every file is there, is a JSON array and names a registered type whose
\* table has been migrated
Loadable(paths) ==
  \A k \in 1..Len(paths) :
    /\ Files[paths[k]].readable /\ Files[paths[k]].valid
    /\ ModelName(paths[k]) \in DOMAIN modelRegistry
    /\ HasTable(Storage, modelRegistry[ModelName(paths[k])])

\* every file names a type with a backend-assigned numeric identity
AllNumeric(paths) ==
  \A k \in 1..Len(paths) : IDKind(modelRegistry[ModelName(paths[k])]) = "uint"

StorageOps == {"Get", "Create", "Update"}

\* C7 as stated: after a successful Preload of files whose every object
\* carries an "id" key, a second Preload of the same files succeeds and
\* leaves the live and total row counts as the first run left them.
C7_Original ==
  last.op = "Preload" /\ last.run >= 2 /\ AllCarryID(last.paths) =>
    last.err = "nil" /\ Rows(Storage) = last.first

\* C7 amended: the same for files whose every object carries a non-zero
\* "id" and no "deleted_at"; the second run creates nothing, it updates.
C7_PreloadIdempotent ==
  last.op = "Preload" /\ last.run >= 2 /\ AllCarryNonZeroID(last.paths) =>
    /\ last.err = "nil"
    /\ Rows(Storage) = last.first
    /\ \A i \in 1..Len(last.log) : last.log[i].op # "Create"
    /\ \A kj \in ObjsOf(last.paths) :
          \E i \in 1..Len(last.log) :
            last.log[i] = Event("Update", kj[1], kj[2], last.log[i].t)

C7_Witness ==
  /\ last.op = "Preload" /\ last.run = 2 /\ AllCarryNonZeroID(last.paths)
  /\ last.err = "nil" /\ Rows(Storage) = last.first
  /\ \E t \in DOMAIN Storage : Rows(Storage)[t].total = 2

\* the rows of all tables
Total(rows) == LET t == CHOOSE x \in DOMAIN rows : TRUE IN rows[t].total

Before(e1, e2) == e1.file < e2.file \/ (e1.file = e2.file /\ e1.obj <= e2.obj)

\* the files of a call that were processed to the end
Completed == IF last.err = "nil" THEN 1..Len(last.paths) ELSE 1..(last.file - 1)

\* C9: Preload is sequential and fail-fast.  Files are taken in the order
\* given and objects in array order, a file is finished before the next one
\* is read, and when file k fails the error is file k's and nothing is read
\* or stored for a later file.
C9_PreloadFailFast ==
  last.op = "Preload" =>
    /\ \A i, j \in 1..Len(last.log) : i < j => Before(last.log[i], last.log[j])
    /\ last.err = "nil" <=> last.file = 0
    /\ last.err # "nil" =>
          /\ last.file \in 1..Len(last.paths)
          /\ \A i \in 1..Len(last.log) : last.log[i].file <= last.file
    /\ \A k \in Completed :
          /\ \E i \in 1..Len(last.log) : last.log[i].op = "ReadFile" /\ last.log[i].file = k
          /\ \A j \in 1..Len(Files[last.paths[k]].objs) :
                \E i \in 1..Len(last.log) :
                  /\ last.log[i].op \in {"Create", "Update"}
                  /\ last.log[i].file = k /\ last.log[i].obj = j

C9_Witness ==
  /\ last.op = "Preload" /\ Len(last.paths) = 2
  /\ last.err # "nil" /\ last.file = 1
  /\ \E i \in 1..Len(last.log) : last.log[i].op = "Create"
  /\ \A i \in 1..Len(last.log) : last.log[i].file = 1

\* the type name the files on disk stand for: the base name, extension off
ExpectedName ==
     (<<"d", "/", "t", ".", "j">> :> <<"t">>)
  @@ (<<"t", ".", "j">>           :> <<"t">>)
  @@ (<<"z", "/", "t", ".", "j">> :> <<"t">>)
  @@ (<<"n", "/", "t", ".", "j">> :> <<"t">>)
  @@ (<<"x", "/", "t", ".", "j">> :> <<"t">>)
  @@ (<<"f", "/", "t", ".", "j">> :> <<"t">>)
  @@ (<<"c", ".", "j">>           :> <<"c">>)
  @@ (<<"e", "/", "c", ".", "j">> :> <<"c">>)
  @@ (<<"t", ".", "u", ".", "j">> :> <<"t", ".", "u">>)
  @@ (<<"m", "/", "u", ".", "j">> :> <<"u">>)
  @@ (<<"u", ".", "j">>           :> <<"u">>)

\* the files of a call that Preload got to
Reached == IF last.err = "nil" THEN 1..Len(last.paths) ELSE 1..last.file

\* file k failed on the registry lookup, unparsed and without storage call
ConfigError(k) ==
  /\ last.file = k /\ last.err = "no model registered"
  /\ \A i \in 1..Len(last.log) :
        last.log[i].file = k => last.log[i].op = "ReadFile"

\* C10 as stated: the type comes from the base name without extension,
\* looked up in the registry map; a file whose name is absent fails with the
\* configuration error, before it is parsed and without storage call.
C10_Original ==
  last.op = "Preload" =>
    \A k \in Reached :
      ExpectedName[last.paths[k]] \notin DOMAIN modelRegistry => ConfigError(k)

\* C10 amended: the same for a file that can be read (the file is read
\* before its name is looked up, so a missing file fails as unreadable).
C10_PreloadResolvesType ==
  last.op = "Preload" =>
    \A k \in Reached :
      /\ Files[last.paths[k]].readable
           /\ ExpectedName[last.paths[k]] \notin DOMAIN modelRegistry => ConfigError(k)
      /\ \A i \in 1..Len(last.log) :
            last.log[i].file = k /\ last.log[i].op \in StorageOps =>
              /\ ExpectedName[last.paths[k]] \in DOMAIN modelRegistry
              /\ last.log[i].t = modelRegistry[ExpectedName[last.paths[k]]]

C10_Witness ==
  /\ last.op = "Preload" /\ Len(last.paths) = 2
  /\ Files[last.paths[1]].readable /\ Files[last.paths[1]].valid
  /\ ExpectedName[last.paths[1]] = <<"t", ".", "u">>
  /\ ConfigError(1)

\* the value row r holds in the column a condition names
ColumnOf(r, f) == IF f = "id" THEN r.ID ELSE r.Name

NoConditions == Cond({}, 0)

\* C11: Filter with an empty condition mapping is All.  In every storage
\* state and for every target (nil, not a slice, a slice of any element
\* type) Filter with no condition returns the records and the error All
\* returns, and so did the Filter call just made.
C11_FilterEmptyIsAll ==
  /\ \A models \in Targets :
       AccFilter(View.db, models, NoConditions, <<>>) = AccAll(View.db, models)
  /\ last.op = "Filter" /\ DOMAIN last.conditions = {} =>
       /\ last.rows = AccAll(View.db, last.models).rows
       /\ last.err = AccAll(View.db, last.models).err

C11_Witness ==
  /\ last.op = "Filter"
  /\ DOMAIN last.conditions = {}
  /\ last.models.kind = "slice"
  /\ last.err = "nil"
  /\ last.rows # {}
  /\ \E r \in Storage[last.models.elem] : r.Deleted

\* the Filter call just made: a slice of a migrated record type, and one or
\* more conditions, each on a column of the type
FilteredByColumns ==
  /\ last.op = "Filter"
  /\ last.models.kind = "slice"
  /\ last.models.elem \in DOMAIN Storage
  /\ DOMAIN last.conditions # {}
  /\ DOMAIN last.conditions \subseteq Columns

\* C12: Filter with a non-empty condition mapping returns exactly the live
\* records for which every listed field equals its given value, whatever
\* the order in which the map was iterated; records failing a condition and
\* soft-deleted records are excluded; and a Filter call leaves storage
\* unchanged.
C12_FilterConjunction ==
  /\ [](FilteredByColumns =>
          /\ last.err = "nil"
          /\ last.rows = {r \in Storage[last.models.elem] :
                            /\ ~r.Deleted
                            /\ \A f \in DOMAIN last.conditions :
                                 ColumnOf(r, f) = last.conditions[f]}
          /\ \A order \in Orders(last.conditions) :
               AccFilter(View.db, last.models, last.conditions, order).rows = last.rows)
  /\ [][last'.op = "Filter" => db' = db /\ seq' = seq]_vars

C12_Witness ==
  /\ FilteredByColumns
  /\ Cardinality(DOMAIN last.conditions) = 2
  /\ last.rows # {}
  /\ \E r \in Storage[last.models.elem] : r.Deleted /\ r.Name = last.conditions["name"]

\* an Update step that succeeded on a record whose identity had a live row
UpdatedLive == last'.op = "Update" /\ last'.err = "nil" /\ last'.hadLive

\* after the step: Get by the record's identity returns the record as given,
\* the table has as many rows as before, and every other row is as it was
Overwritten ==
  /\ AccGet(db', seq', last'.t, Fresh(last'.t), IDArg(last'.m.ID)).err = "nil"
  /\ AccGet(db', seq', last'.t, Fresh(last'.t), IDArg(last'.m.ID)).m = last'.m
  /\ Cardinality(db'[last'.t]) = Cardinality(db[last'.t])
  /\ \A r \in db[last'.t] : r.ID # last'.m.ID => r \in db'[last'.t]
  /\ \A r \in db'[last'.t] : r.ID # last'.m.ID => r \in db[last'.t]

C13_Original == [][UpdatedLive => Overwritten]_vars

\* C13: Update on an existing live record overwrites it in place.  After
\* Update(r) succeeds for an r whose deletedAt is unset, Get by r's identity
\* returns r's attribute values, the number of stored records is unchanged,
\* and no other record is modified.
C13_UpdateInPlace == [][UpdatedLive /\ ~last'.m.Deleted => Overwritten]_vars

C13_Witness ==
  /\ last.op = "Update"
  /\ last.err = "nil"
  /\ last.hadLive
  /\ ~last.m.Deleted
  /\ Cardinality(Storage[last.t]) >= 2
  /\ GetNow(last.t, last.m.ID).m = last.m

\* C14: Count returns the number of records Filter returns for the same
\* record type and the same conditions (so soft-deleted records are not
\* counted): whenever Filter into a slice of the type succeeds, in any
\* iteration order, Count has succeeded with the size of Filter's result;
\* and a Count call leaves storage unchanged.
C14_CountIsFilterSize ==
  /\ [](last.op = "Count" =>
          \A order \in Orders(last.conditions) :
            AccFilter(View.db, SliceOf(last.t), last.conditions, order).err = "nil" =>
              /\ last.err = "nil"
              /\ last.count =
                   Cardinality(AccFilter(View.db, SliceOf(last.t), last.conditions, order).rows))
  /\ [][last'.op = "Count" => db' = db /\ seq' = seq]_vars

C14_Witness ==
  /\ last.op = "Count"
  /\ last.err = "nil"
  /\ last.count >= 1
  /\ DOMAIN last.conditions = {"name"}
  /\ \E r \in Storage[last.t] : r.Deleted /\ r.Name = last.conditions["name"]


\* the built-in User type of the package, whatever path it is imported under
DefaultUser(model) == model = "User"

\* the registry entries in registration order without the default User's
WithoutDefaultUser(reg) == SelectSeq(reg, LAMBDA model : ~DefaultUser(model))

TablesOf(models) == {models[k] : k \in 1..Len(models)}

\* C15: migration target selection.  A non-empty explicit list is migrated
\* exactly as given, the default User included if supplied; with no models
\* the targets are the registry entries in registration order without the
\* entries of the default User type, and the default User's table is not
\* created.
C15_MigrationTargets ==
  last.op = "Migrate" =>
    /\ Len(last.models) > 0 =>
         /\ last.targets = last.models
         /\ last.err = "nil"
         /\ DOMAIN db = last.before \cup TablesOf(last.models)
    /\ Len(last.models) = 0 =>
         /\ last.targets = WithoutDefaultUser(globalRegistry)
         /\ DOMAIN db = last.before \cup TablesOf(WithoutDefaultUser(globalRegistry))
         /\ "User" \in DOMAIN db => "User" \in last.before

\* C16: Migrate fails and issues no backend migration call when the target
\* set is empty; a Migrate without models against a registry holding only
\* the default User prototype fails with "no models to migrate".
C16_MigrateEmptyFails ==
  last.op = "Migrate" =>
    /\ Len(last.targets) = 0 =>
         /\ last.err = "no models to migrate"
         /\ ~last.called
         /\ DOMAIN db = last.before
    /\ Len(last.models) = 0 /\ WithoutDefaultUser(globalRegistry) = <<>> =>
         /\ last.err = "no models to migrate"
         /\ ~last.called
         /\ DOMAIN db = last.before

\* the validation rules in the order of the claim: the inputs fail rule k
RuleFails(k, in) ==
  CASE k = 1 -> TrimSpace(in.username) = <<>>
    [] k = 2 -> Len(in.username) \notin minUsernameLen..maxUsernameLen
    [] k = 3 -> in.username = <<>> \/ \E j \in 1..Len(in.username) : in.username[j] \notin usernameChars
    [] k = 4 -> TrimSpace(in.email) = <<>>
    [] k = 5 -> ~emailRegex(in.email)
    [] k = 6 -> Len(in.password) < minPasswordLen
    [] k = 7 -> \A j \in 1..Len(in.password) : in.password[j] \notin upperCase
    [] k = 8 -> \A j \in 1..Len(in.password) : in.password[j] \notin lowerCase
    [] k = 9 -> \A j \in 1..Len(in.password) : in.password[j] \notin digits

RuleMessage ==
  <<"username cannot be empty",
    "username must be between 3 and 150 characters",
    "username can only contain letters, numbers, and underscores",
    "email cannot be empty",
    "invalid email format",
    "password must be at least 8 characters long",
    "password must contain at least one uppercase letter",
    "password must contain at least one lowercase letter",
    "password must contain at least one digit">>

FailedRules(in) == {k \in 1..9 : RuleFails(k, in)}

\* C17: CreateSuperuser validates username, then email, then password, each
\* by its rules in order, and returns the message of the first failing rule
\* only; on a validation failure it issues no storage operation and creates
\* no record.  The username length limits are the program's: 150 characters
\* pass, 151 do not.
C17_ValidationOrder ==
  /\ validateSuperuserInputs(longest, emailA, strong) = "nil"
  /\ validateSuperuserInputs(tooLong, <<>>, <<>>) = RuleMessage[2]
  /\ last.op = "CreateSuperuser" =>
       IF FailedRules(last.in) # {}
       THEN /\ last.err.kind = "validation failed"
            /\ last.err.cause = RuleMessage[MinOf(FailedRules(last.in))]
            /\ last.ops = <<>>
            /\ Storage["User"] = last.before
       ELSE last.err.kind # "validation failed"

C17_Witness ==
  /\ last.op = "CreateSuperuser"
  /\ Cardinality(FailedRules(last.in)) >= 3
  /\ MinOf(FailedRules(last.in)) = 5
  /\ last.err.cause = "invalid email format"
  /\ last.before # {}

\* the errors that report a uniqueness violation
UniquenessViolation(err) ==
  \/ err.kind \in {"user with username already exists", "user with email already exists"}
  \/ err.kind = "failed to create superuser" /\ err.cause = "UNIQUE constraint failed"

\* the call just made had valid inputs and met an active account with its
\* username or any account with its email
MetDuplicate ==
  /\ last.op = "CreateSuperuser"
  /\ FailedRules(last.in) = {}
  /\ \/ \E r \in last.before : ~r.Deleted /\ r.Username = last.in.username
     \/ \E r \in last.before : r.Email = last.in.email

\* C18: CreateSuperuser enforces uniqueness.  It fails with a uniqueness
\* violation and creates no record if an active account with the username
\* exists or any account has the email, and no two stored accounts ever
\* share a username or an email.
C18_Uniqueness ==
  /\ MetDuplicate =>
       /\ UniquenessViolation(last.err)
       /\ Storage["User"] = last.before
  /\ \A r1, r2 \in Storage["User"] :
       r1 # r2 => r1.Username # r2.Username /\ r1.Email # r2.Email

C18_Witness ==
  /\ MetDuplicate
  /\ \E r \in last.before : ~r.Deleted /\ r.Username = last.in.username
  /\ \A r \in last.before : r.Email # last.in.email
  /\ last.err.kind = "failed to create superuser"

\* C19: when CreateSuperuser succeeds exactly one new account is stored,
\* with the given username and email, role superuser, isActive, isStaff and
\* isSuperuser true, and a password hash that is non-empty and is not the
\* plaintext password.
C19_SuperuserStored ==
  last.op = "CreateSuperuser" /\ last.err.kind = "nil" =>
    \E r \in Storage["User"] :
      /\ r \notin last.before
      /\ Storage["User"] = last.before \cup {r}
      /\ r.Username = last.in.username
      /\ r.Email = last.in.email
      /\ r.Role = "superuser"
      /\ r.IsActive /\ r.IsStaff /\ r.IsSuperuser
      /\ r.PasswordHash # <<>>
      /\ r.PasswordHash # last.in.password
      /\ ~r.Deleted

C19_Witness ==
  /\ last.op = "CreateSuperuser"
  /\ last.err.kind = "nil"
  /\ last.before # {}
  /\ Cardinality(Storage["User"]) = Cardinality(last.before) + 1

\* the role invariant of a stored account
RoleInvariant(r) ==
  /\ r.Role \in {"user", "admin", "superuser"}
  /\ r.Role = "superuser" => r.IsSuperuser /\ r.IsStaff
  /\ r.Role = "admin" => r.IsStaff

\* a User value Create must refuse: a required field missing, the username
\* or email malformed, or a role outside the three
Refused(u) ==
  \/ u.Username = <<>> \/ u.Email = <<>> \/ u.PasswordHash = <<>>
  \/ Len(u.Username) \notin minUsernameLen..maxUsernameLen
  \/ \E j \in 1..Len(u.Username) : u.Username[j] \notin usernameChars
  \/ ~emailRegex(u.Email)
  \/ u.Role \notin {"", "user", "admin", "superuser"}

\* C20: every User created through Create satisfies the role invariant at
\* creation: its role is user, admin or superuser (an unset role becomes
\* user, any other value makes Create fail), superuser implies isSuperuser
\* and isStaff, admin implies isStaff; and Create fails, storing nothing,
\* when username, email or password hash is missing or the username or
\* email is malformed.
C20_RoleInvariant ==
  /\ \A r \in Storage["User"] : RoleInvariant(r)
  /\ last.op = "Create" /\ last.t = "User" =>
       /\ Refused(last.given) => last.err # "nil" /\ Storage["User"] = last.before
       /\ last.err = "nil" =>
            /\ RoleInvariant(last.m)
            /\ last.m \in Storage["User"]
            /\ last.m.Role = (IF last.given.Role = "" THEN "user" ELSE last.given.Role)

C20_Witness ==
  /\ last.op = "Create"
  /\ last.t = "User"
  /\ last.err = "nil"
  /\ last.given.Role = "superuser"
  /\ ~last.given.IsStaff
  /\ ~last.given.IsSuperuser
  /\ last.m.IsStaff /\ last.m.IsSuperuser
  /\ \E r \in Storage["User"] : r.Role = "user" /\ r # last.m

\* the value is a struct or a pointer to one
IsRecord(v) == v.kind \in {"struct", "ptr", "nilptr"}

\* the attribute can be selected on a value of the type: it is a field of
\* the type, or promoted from an embedded BaseModel or *BaseModel
Exposes(v, a) ==
  \/ \E f \in v.fields : f.name = a /\ ~f.anonymous
  \/ \E f \in v.fields : f.name = "BaseModel" /\ f.anonymous

ExposesBase(v) == \A a \in BaseAttributes : Exposes(v, a)

DefinesDirectly(v) ==
  /\ \A a \in BaseAttributes : \E f \in v.fields : f.name = a /\ ~f.anonymous
  /\ \A f \in v.fields : ~f.anonymous

Validated == last.op = "ValidateModel"

PortOf(text) ==
  CASE text = <<"5", "4", "3", "3">> -> 5433
    [] text = <<"0">> -> 0
    [] text = <<"-", "1">> -> 0 - 1
    [] text = <<"+", "7">> -> 7
    [] OTHER -> 0

IntegerPorts == {<<"5", "4", "3", "3">>, <<"0">>, <<"-", "1">>, <<"+", "7">>}

MissingParameter(env) ==
  \/ env.DB_TYPE = ""
  \/ env.DB_NAME = ""
  \/ env.DB_TYPE \notin {"postgres", "sqlite", "mongodb"}
  \/ env.DB_PORT # <<>> /\ env.DB_PORT \notin IntegerPorts
  \/ env.DB_TYPE = "postgres" /\ env.DB_USER = ""

DefaultPort(type) ==
  CASE type = "postgres" -> 5432 [] type = "mongodb" -> 27017 [] OTHER -> 0

\* C22: LoadConfig returns an error exactly when DB_TYPE or DB_NAME is
\* unset, DB_TYPE is not postgres, sqlite or mongodb, DB_PORT is set and is
\* not an integer, or DB_USER is unset for postgres; otherwise the config
\* has Type = DB_TYPE, the user and name of the environment, and for
\* postgres and mongodb the host localhost and the port 5432 / 27017 where
\* the environment gives none.
C22_LoadConfig ==
  last.op = "LoadConfig" =>
    /\ (last.err # "nil") <=> MissingParameter(last.env)
    /\ last.err = "nil" =>
         /\ last.config.Type = last.env.DB_TYPE
         /\ last.config.Name = last.env.DB_NAME
         /\ last.config.User = last.env.DB_USER
         /\ last.config.Host =
              IF last.env.DB_HOST = "" /\ last.env.DB_TYPE # "sqlite"
              THEN "localhost" ELSE last.env.DB_HOST
         /\ last.config.Port =
              IF PortOf(last.env.DB_PORT) = 0
              THEN DefaultPort(last.env.DB_TYPE)
              ELSE PortOf(last.env.DB_PORT)

C22_Witness ==
  /\ last.op = "LoadConfig"
  /\ last.err = "nil"
  /\ last.env.DB_TYPE = "postgres"
  /\ last.env.DB_HOST = ""
  /\ last.env.DB_PORT = <<>>
  /\ last.config.Host = "localhost"
  /\ last.config.Port = 5432

\* the process has ended after InitDB had succeeded
EndedConnected == cli.pc = "exited" /\ cli.connected

\* C23: on every path by which the command-line host ends after InitDB has
\* succeeded, Connection.Close has been called exactly once.
C23_ReleasedOnce == EndedConnected => cli.closes = 1

ShapeErrors ==
  {"model validation failed", "models cannot be nil",
   "models must be a pointer to a slice"}

\* the slice target is not a pointer to a slice of a record type
InvalidTarget(models) ==
  models.kind # "slice" \/ ~ValidateBaseModel(models.elem)

\* C24: every accessor operation validates the record shape or the slice
\* target first; with an invalid shape it returns a shape error and issues
\* no storage call (so it returns no storage error either).
C24_ValidatesFirst ==
  /\ (last.op \in {"All", "Filter", "FindWhere"} /\ InvalidTarget(last.models))
       => last.err \in ShapeErrors
  /\ (last.op = "Count" /\ ~ValidateBaseModel(last.t)) => last.err \in ShapeErrors
  /\ (last.op \in {"Create", "Delete"} /\ ~ValidateBaseModel(last.t))
       => last.err \in ShapeErrors

\* the accessor calls logged for object j of file k, in order
CallsFor(log, k, j) ==
  LET ev == SelectSeq(log, LAMBDA e : e.file = k /\ e.obj = j)
  IN  [i \in 1..Len(ev) |-> ev[i].op]

\* the first object of the first file of the call, when the file is read,
\* parsed and resolved and the object decodes
FirstType(paths) == modelRegistry[ModelName(paths[1])]

FirstObject(paths) == Files[paths[1]].objs[1]

FirstIsLoaded(paths) ==
  /\ Files[paths[1]].readable /\ Files[paths[1]].valid
  /\ ModelName(paths[1]) \in DOMAIN modelRegistry
  /\ Len(Files[paths[1]].objs) >= 1
  /\ Decodable(FirstType(paths), FirstObject(paths))

LiveMatch(d, t, obj) == \E r \in Live(d, t) : r.ID = obj.id

\* every object's calls have one of the four shapes, a lookup is made
\* exactly for the objects with an "id" key, and a lookup followed by
\* nothing is the end of a failed call
ResolutionShape ==
  last.op = "Preload" =>
    \A k \in 1..Len(last.paths) : \A j \in 1..Len(Files[last.paths[k]].objs) :
      LET calls == CallsFor(last.log, k, j)
          obj   == Files[last.paths[k]].objs[j]
      IN  calls # <<>> =>
            /\ calls \in {<<"Create">>, <<"Get", "Update">>, <<"Get", "Create">>, <<"Get">>}
            /\ (calls[1] = "Get") <=> (obj.key # "absent")
            /\ calls = <<"Get">> =>
                 /\ last.err # "nil"
                 /\ last.log[Len(last.log)] = Event("Get", k, j, last.log[Len(last.log)].t)

\* the first object against the storage the call started from
ResolutionOfFirst ==
  (last'.op = "Preload" /\ FirstIsLoaded(last'.paths)) =>
    LET t     == FirstType(last'.paths)
        obj   == FirstObject(last'.paths)
        calls == CallsFor(last'.log, 1, 1)
    IN  /\ obj.key = "absent" => calls = <<"Create">>
        /\ (obj.key = "value" /\ HasTable(db, t) /\ LiveMatch(db, t, obj))
             => calls = <<"Get", "Update">>
        /\ (obj.key = "value" /\ HasTable(db, t) /\ ~LiveMatch(db, t, obj))
             => calls = <<"Get", "Create">>
        /\ (obj.key = "null" \/ (obj.key = "value" /\ ~HasTable(db, t)))
             => /\ calls = <<"Get">>
                /\ last'.err # "nil" /\ last'.file = 1
                /\ db' = db
        /\ (calls = <<"Get", "Update">> /\ Len(last'.paths) = 1
              /\ Len(Files[last'.paths[1]].objs) = 1 /\ last'.err = "nil")
             => /\ [ID |-> obj.id, Name |-> obj.name, Deleted |-> obj.deleted] \in db'[t]
                /\ Cardinality(db'[t]) = Cardinality(db[t])

\* C25: per preload object, an "id" key leads to a Get by that id; a found
\* record leads to Update under the stored identity and never Create, a
\* not-found to Create and never Update, any other Get error aborts the
\* preload with neither; without an "id" key Create is issued with no
\* lookup.
C25_ExistenceResolution == []ResolutionShape /\ [][ResolutionOfFirst]_vars

C25_Witness ==
  /\ last.op = "Preload" /\ last.err = "nil"
  /\ \E k \in 1..Len(last.paths) : \E j \in 1..Len(Files[last.paths[k]].objs) :
       CallsFor(last.log, k, j) = <<"Get", "Update">>
  /\ \E k \in 1..Len(last.paths) : \E j \in 1..Len(Files[last.paths[k]].objs) :
       CallsFor(last.log, k, j) = <<"Get", "Create">>

\* the record types of the package and its tests
RecordTypes == {"TestModel", "CustomIDModel", "User"}

\* the argument of All is not a pointer to a slice of records or of
\* pointers to records
BadSliceTarget(models) ==
  \/ models.kind = "nil"
  \/ models.kind = "sliceValue"
  \/ models.kind = "struct"
  \/ models.kind = "sliceOfPtrPtr"
  \/ models.elem \notin RecordTypes

\* C26: All fails with a shape error, and not with an error of storage,
\* when its argument is nil, is not a pointer, points to a non-slice, or is
\* a slice whose element type, one pointer taken off, is no record type; a
\* slice of records and a slice of pointers to records are both accepted
\* and get the live rows of the table, also when the table is empty.
C26_SliceTarget ==
  last.op = "All" =>
    /\ BadSliceTarget(last.models) <=> (last.err \in ShapeErrors)
    /\ BadSliceTarget(last.models) => last.rows = {}
    /\ (~BadSliceTarget(last.models) /\ HasTable(db, last.models.elem))
         => /\ last.err = "nil"
            /\ last.rows = Live(db, last.models.elem)

C26_Witness ==
  /\ last.op = "All"
  /\ last.models = SliceOfPtr("TestModel")
  /\ last.err = "nil"
  /\ last.rows # {}

\* RegisterModel appends its argument; every other operation leaves the
\* registry as it is
RegistryStep ==
  IF last'.op = "RegisterModel" /\ globalRegistry' # globalRegistry
  THEN globalRegistry' = Append(globalRegistry, last'.model)
  ELSE globalRegistry' = globalRegistry

\* the registry starts with its initial contents, and the answer of
\* IsModelRegistered is whether some entry has the type asked about
RegistryState ==
  /\ SubSeq(globalRegistry, 1, Len(globalModelRegistry)) = globalModelRegistry
  /\ last.op = "IsModelRegistered" =>
       (last.registered <=>
          \E k \in 1..Len(globalRegistry) : globalRegistry[k] = last.model.type)

\* C27: the global registry is its initial contents (the default User)
\* followed by every registered prototype in call order, duplicates kept;
\* no Migrate, accessor or Preload operation removes or reorders an entry;
\* IsModelRegistered(m) holds iff some entry has m's type.
C27_RegistryAdditive == []RegistryState /\ [][RegistryStep]_vars

C27_Witness ==
  /\ globalRegistry = <<"User", "TestModel", "TestModel">>
  /\ last.op = "IsModelRegistered"
  /\ last.model.type = "main.User"
  /\ ~last.registered

IsWrite(e) == e.op \in {"Create", "Update"}

\* the writes of a call that returned nil: all of them, but for the last
\* logged call of a failed Preload when that is the write that failed
CompletedWrites(log, err) ==
  LET writes == SelectSeq(log, IsWrite)
  IN  IF err # "nil" /\ Len(log) >= 1 /\ IsWrite(log[Len(log)])
      THEN SubSeq(writes, 1, Len(writes) - 1)
      ELSE writes

RECURSIVE ApplyWrites(_, _, _, _, _)

WriteApplied(res, writes, paths, i) == ApplyWrites(res.db, res.seq, writes, paths, i + 1)

\* storage after the writes from index i on, each applied on its own
ApplyWrites(d, s, writes, paths, i) ==
  IF i > Len(writes) THEN d
  ELSE WriteApplied(
         IF writes[i].op = "Create"
         THEN AccCreate(d, s, writes[i].t,
                        Decode(writes[i].t, Files[paths[writes[i].file]].objs[writes[i].obj]))
         ELSE AccUpdate(d, s, writes[i].t,
                        Decode(writes[i].t, Files[paths[writes[i].file]].objs[writes[i].obj])),
         writes, paths, i)

\* C28: Preload is not atomic.  When it aborts, every create and update it
\* issued before the failing step stays in storage: storage after the
\* failed call is storage before it with exactly those writes applied.
PrefixPersists ==
  (last'.op = "Preload" /\ last'.err # "nil" /\ ~tx.open) =>
    db' = ApplyWrites(db, seq, CompletedWrites(last'.log, last'.err), last'.paths, 1)

C28_PreloadNotAtomic == [][PrefixPersists]_vars

C28_Witness ==
  /\ last.op = "Preload" /\ last.err # "nil"
  /\ CompletedWrites(last.log, last.err) # <<>>
  /\ CompletedWrites(last.log, last.err)[1].op = "Create"
  /\ Rows(db) # last.base

\* the object's "id" is the identity of a soft-deleted record
TombstoneMatch(d, t, obj) ==
  HasTable(d, t) /\ \E r \in d[t] : r.ID = obj.id /\ r.Deleted

\* the soft-deleted records are left as they are
TombstonesKept == \A t \in DOMAIN db : \A r \in db[t] : r.Deleted => r \in db'[t]

\* C29: a preload object whose "id" matches only a soft-deleted record is
\* found not to exist and is sent to Create under that identity, never to
\* Update; no Preload clears or changes a tombstoned row.
TombstoneResolution ==
  last'.op = "Preload" =>
    /\ TombstonesKept
    /\ (/\ FirstIsLoaded(last'.paths)
        /\ FirstObject(last'.paths).key = "value"
        /\ TombstoneMatch(db, FirstType(last'.paths), FirstObject(last'.paths)))
         => /\ CallsFor(last'.log, 1, 1) = <<"Get", "Create">>
            /\ \A i \in 1..Len(last'.log) : last'.log[i].op # "Update"
            /\ last'.err # "nil"
            /\ db' = db

C29_TombstoneNotCleared == [][TombstoneResolution]_vars

C29_Witness ==
  /\ last.op = "Preload"
  /\ FirstIsLoaded(last.paths)
  /\ FirstObject(last.paths).key = "value"
  /\ TombstoneMatch(db, FirstType(last.paths), FirstObject(last.paths))
  /\ CallsFor(last.log, 1, 1) = <<"Get", "Create">>
  /\ last.err = "UNIQUE constraint failed"

\* the identity a username text stands for when it is compared with the
\* integer key: the number it denotes, none (0) when it is no number
IdentityOf(username) == IF username = numeric THEN 1 ELSE 0

PreCheckFired == last.err.kind = "user with username already exists"

\* C30: the username pre-check of CreateSuperuser is a lookup by identity.
\* It reports "user with username ... already exists" exactly when a live
\* User record has the identity the username text stands for, whatever the
\* usernames stored; a stored account with the same username and another
\* identity passes the pre-check and is refused only by the unique index
\* when Create inserts.
C30_PreCheckByIdentity ==
  (last.op = "CreateSuperuser" /\ FailedRules(last.in) = {}) =>
    /\ PreCheckFired <=>
         \E r \in last.before : ~r.Deleted /\ r.ID = IdentityOf(last.in.username)
    /\ (/\ \E r \in last.before : r.Username = last.in.username
        /\ ~PreCheckFired
        /\ \A r \in last.before : r.Deleted \/ r.Email # last.in.email)
         => /\ last.err.kind = "failed to create superuser"
            /\ last.err.cause = "UNIQUE constraint failed"
            /\ last.ops = <<"Get", "Filter", "Create">>

C30_Witness ==
  /\ last.op = "CreateSuperuser"
  /\ PreCheckFired
  /\ last.ops = <<"Get">>
  /\ \A r \in last.before : r.Username # last.in.username

====
